---------------------------- MODULE Spec2Model ----------------------------
(***************************************************************************)
(* A model of MDAL's TUFLOW FV driver (frmts/mdal_tuflowfv.cpp) and of the *)
(* public C API over datasets and dataset groups (mdal.cpp).               *)
(*                                                                         *)
(* The module holds several state machines over one set of variables:      *)
(*   SpecAccess  the windowed accessors of TuflowFVDataset3D               *)
(*   SpecData    the dispatcher MDAL_D_data                                *)
(*   SpecFaces   DriverTuflowFV::populateFaces                             *)
(*   SpecLevels  calculateMaximumLevelCount / create3DDataset              *)
(*   SpecNaming  parseNetCDFVariableMetadata                               *)
(*   SpecGroup   the edit-mode life cycle of a DatasetGroup                *)
(* A specification leaves the variables of the other machines at their     *)
(* idle values.                                                            *)
(***************************************************************************)
EXTENDS Integers, Sequences, FiniteSets, TLC

VARIABLES
  dataset,      \* the TuflowFVDataset3D / Dataset object read by a call
  group,        \* the DatasetGroup that owns the dataset
  mesh,         \* the Mesh: its face and vertex counts
  ncFile,       \* the Array Source: which arrays exist, what they hold
  sLastStatus,  \* mdal.cpp's process-wide last status
  pc,           \* position of the caller: "start", "done"
  call,         \* the operation applied and its arguments
  ret,          \* the value the operation returned
  buffer,       \* what the operation wrote to the caller's buffer, from slot 0
  reads,        \* the Array Source reads the operation issued, in order
  invoked,      \* the accessor the operation ran, with its size_t window
  mDimensions,  \* DriverCF::mDimensions: the sizes the driver found in the file
  faces,        \* the face list populateFaces fills
  ndebug,       \* the build: TRUE when NDEBUG compiles assert() away
  mMaximumLevelsCount,  \* DriverTuflowFV's memoized maximum-levels-count
  datasets3D,   \* the datasets create3DDataset has built, in order
  scanCompleted,\* whether a call has run the scan of "NL" to its end
  calls,        \* the number of calls made so far
  long_name,    \* the "long_name" attribute of the variable being named
  variableName, \* the identifier of the variable being named
  name,         \* parseNetCDFVariableMetadata's output: the group name
  is_vector,    \* its output: whether the variable is a vector component
  is_x,         \* its output: whether that component is the x one
  driver,       \* the DriverManager's entry for the group's driver
  events        \* the calls made on the group and on its driver, in order

accessVars == <<dataset, group, mesh, sLastStatus, ret, buffer, reads, invoked>>

facesVars == <<mDimensions, faces, ndebug>>

levelVars == <<mMaximumLevelsCount, datasets3D, scanCompleted, calls>>

namingVars == <<long_name, variableName, name, is_vector, is_x>>

groupVars == <<driver, events>>

vars == <<ncFile, pc, call, accessVars, facesVars, levelVars, namingVars, groupVars>>

\* What the operations of one machine leave alone.
notAccessVars == <<facesVars, levelVars, namingVars, groupVars>>

notFacesVars == <<accessVars, levelVars, namingVars, groupVars>>

notLevelVars == <<dataset, group, mesh, sLastStatus, buffer, invoked, faces, ndebug, namingVars, groupVars>>

notNamingVars == <<ncFile, call, accessVars, facesVars, levelVars, groupVars>>

notGroupVars == <<ncFile, pc, dataset, mesh, buffer, reads, invoked, facesVars, mMaximumLevelsCount, datasets3D, scanCompleted, namingVars>>

-----------------------------------------------------------------------------
(* Bounds of the model *)

MaxFaces == 3
MaxVolumes == 2
MaxLevelFaces == 2
MaxTimesteps == 1
MaxIndex == 4
MaxCount == 4
MaxNegative == 2
MaxConn == 4
MaxVertices == 2

\* The value of mMaximumLevelsCount before it is computed.
NotComputed == -1

-----------------------------------------------------------------------------
(* Integer helpers *)

Min(a, b) == IF a < b THEN a ELSE b

Max(a, b) == IF a > b THEN a ELSE b

\* size_t arithmetic is modular.  TLC's integers are 32 bits wide, so the
\* modulus 2^64 is scaled to 2^30; every int the model converts has a far
\* smaller magnitude, as an int has against 2^64.
SizeTModulus == 2^30

ToSizeT(i) == i % SizeTModulus

-----------------------------------------------------------------------------
(* The Array Source *)

\* NetCDFFile::arrId( name ): the identifier of a named array, negative when
\* the file does not hold it.
ArrNames == <<"NL", "layerface_Z", "stat", "idx2", "idx3", "x", "y">>

arrId(file, arrName) ==
  IF arrName \in file.present
    THEN (CHOOSE i \in 1..Len(ArrNames) : ArrNames[i] = arrName) - 1
    ELSE -1

ArrOfId(id) == ArrNames[id + 1]

\* The layer-count array: nl.base everywhere but at index nl.at, where it is nl.peak.
NLAt(file, k) == IF k = file.nl.at THEN file.nl.peak ELSE file.nl.base

\* Value k of timestep ts of a double array; every slot holds another value.
DoubleAt(arrName, ts, k) ==
  (CASE arrName = "layerface_Z" -> 1000
     [] arrName = "x" -> 2000
     [] arrName = "y" -> 3000
     [] OTHER -> 4000) + 100 * ts + k

IntAt(file, arrName, k) ==
  CASE arrName = "NL" -> NLAt(file, k)
    [] arrName = "idx3" -> file.idx3[k + 1]
    [] OTHER -> 0

\* NetCDFFile::readIntArr( id, start, count )
readIntArr(file, id, start, count) ==
  [i \in 1..count |-> IntAt(file, ArrOfId(id), start + i - 1)]

\* NetCDFFile::readDoubleArr( id, ts, start, 1, count )
readDoubleArr(file, id, ts, start, count) ==
  [i \in 1..count |-> DoubleAt(ArrOfId(id), ts, start + i - 1)]

\* One read of the Array Source, as the call log keeps it.
ReadInt(id, start, count) ==
  [arr |-> ArrOfId(id), ts |-> -1, start |-> start, count |-> count]

ReadDouble(id, ts, start, count) ==
  [arr |-> ArrOfId(id), ts |-> ts, start |-> start, count |-> count]

\* The result of an accessor: the returned count, the values written to the
\* buffer from slot 0, and the reads issued.
Result(n, written, issued) == [ret |-> n, buf |-> written, reads |-> issued]

NoResult == Result(0, <<>>, <<>>)

-----------------------------------------------------------------------------
(* TuflowFVDataset3D *)

\* The constructor: the dimensions it is given and the array identifiers it
\* looks up in the file.
TuflowFVDataset3D(ncid_x, ncid_y, timesteps, volumesCount, facesCount, levelFacesCount, ts, maximumLevelsCount, file) ==
  [ volumesCount |-> volumesCount,
    maximumLevelsCount |-> maximumLevelsCount,
    mNcidX |-> ncid_x,
    mNcidY |-> ncid_y,
    mTimesteps |-> timesteps,
    mFacesCount |-> facesCount,
    mLevelFacesCount |-> levelFacesCount,
    mTs |-> ts,
    mNcidVerticalLevels |-> arrId(file, "NL"),
    mNcidVerticalLevelsZ |-> arrId(file, "layerface_Z"),
    mNcidActive2D |-> arrId(file, "stat"),
    mNcid3DTo2D |-> arrId(file, "idx2"),
    mNcid2DTo3D |-> arrId(file, "idx3") ]

verticalLevelCountData(d, file, indexStart, count) ==
  IF (count < 1) \/ (indexStart >= d.mFacesCount) THEN NoResult
  ELSE IF d.mNcidVerticalLevels < 0 THEN NoResult
  ELSE LET copyValues == Min(d.mFacesCount - indexStart, count)
           vals == readIntArr(file, d.mNcidVerticalLevels, indexStart, copyValues)
       IN  Result(copyValues, SubSeq(vals, 1, copyValues),
                  <<ReadInt(d.mNcidVerticalLevels, indexStart, copyValues)>>)

\* Mutant: the level geometry bounded by the face count, as the per-face arrays are.
verticalLevelData_faceBound(d, file, indexStart, count) ==
  IF (count < 1) \/ (indexStart >= d.mFacesCount) THEN NoResult
  ELSE IF d.mTs >= d.mTimesteps THEN NoResult
  ELSE IF d.mNcidVerticalLevelsZ < 0 THEN NoResult
  ELSE LET copyValues == Min(d.mFacesCount - indexStart, count)
           vals == readDoubleArr(file, d.mNcidVerticalLevelsZ, d.mTs, indexStart, copyValues)
       IN  Result(copyValues, SubSeq(vals, 1, copyValues),
                  <<ReadDouble(d.mNcidVerticalLevelsZ, d.mTs, indexStart, copyValues)>>)

verticalLevelData(d, file, indexStart, count) ==
  IF (count < 1) \/ (indexStart >= d.mLevelFacesCount) THEN NoResult
  ELSE IF d.mTs >= d.mTimesteps THEN NoResult
  ELSE IF d.mNcidVerticalLevelsZ < 0 THEN NoResult
  ELSE LET copyValues == Min(d.mLevelFacesCount - indexStart, count)
           vals == readDoubleArr(file, d.mNcidVerticalLevelsZ, d.mTs, indexStart, copyValues)
       IN  Result(copyValues, SubSeq(vals, 1, copyValues),
                  <<ReadDouble(d.mNcidVerticalLevelsZ, d.mTs, indexStart, copyValues)>>)

\* Mutant: the pairs written x after y.
vectorVolumesData_swapped(d, file, indexStart, count) ==
  IF (count < 1) \/ (indexStart >= d.volumesCount) THEN NoResult
  ELSE IF d.mTs >= d.mTimesteps THEN NoResult
  ELSE LET copyValues == Min(d.volumesCount - indexStart, count)
           vals_x == readDoubleArr(file, d.mNcidX, d.mTs, indexStart, copyValues)
           vals_y == readDoubleArr(file, d.mNcidY, d.mTs, indexStart, copyValues)
           interleaved == [s \in 1..(2 * copyValues) |->
                             IF s % 2 = 1 THEN vals_y[(s + 1) \div 2]
                                          ELSE vals_x[s \div 2]]
       IN  Result(copyValues, interleaved,
                  <<ReadDouble(d.mNcidX, d.mTs, indexStart, copyValues),
                    ReadDouble(d.mNcidY, d.mTs, indexStart, copyValues)>>)

\* Mutant: the on-disk entries copied as they are, the decrement forgotten.
faceToVolumeData_noDecrement(d, file, indexStart, count) ==
  IF (count < 1) \/ (indexStart >= d.mFacesCount) THEN NoResult
  ELSE IF d.mNcid2DTo3D < 0 THEN NoResult
  ELSE LET copyValues == Min(d.mFacesCount - indexStart, count)
           vals == readIntArr(file, d.mNcid2DTo3D, indexStart, copyValues)
       IN  Result(copyValues, SubSeq(vals, 1, copyValues),
                  <<ReadInt(d.mNcid2DTo3D, indexStart, copyValues)>>)

faceToVolumeData(d, file, indexStart, count) ==
  IF (count < 1) \/ (indexStart >= d.mFacesCount) THEN NoResult
  ELSE IF d.mNcid2DTo3D < 0 THEN NoResult
  ELSE LET copyValues == Min(d.mFacesCount - indexStart, count)
           vals == readIntArr(file, d.mNcid2DTo3D, indexStart, copyValues)
           \* indexed from 1 in FV, from 0 in MDAL
           decremented == [i \in 1..Len(vals) |-> vals[i] - 1]
       IN  Result(copyValues, SubSeq(decremented, 1, copyValues),
                  <<ReadInt(d.mNcid2DTo3D, indexStart, copyValues)>>)

\* Mutant: the values read whatever the timestep index is.
scalarVolumesData_noTimestepCheck(d, file, indexStart, count) ==
  IF (count < 1) \/ (indexStart >= d.volumesCount) THEN NoResult
  ELSE LET copyValues == Min(d.volumesCount - indexStart, count)
           vals == readDoubleArr(file, d.mNcidX, d.mTs, indexStart, copyValues)
       IN  Result(copyValues, SubSeq(vals, 1, copyValues),
                  <<ReadDouble(d.mNcidX, d.mTs, indexStart, copyValues)>>)

scalarVolumesData(d, file, indexStart, count) ==
  IF (count < 1) \/ (indexStart >= d.volumesCount) THEN NoResult
  ELSE IF d.mTs >= d.mTimesteps THEN NoResult
  ELSE LET copyValues == Min(d.volumesCount - indexStart, count)
           vals == readDoubleArr(file, d.mNcidX, d.mTs, indexStart, copyValues)
       IN  Result(copyValues, SubSeq(vals, 1, copyValues),
                  <<ReadDouble(d.mNcidX, d.mTs, indexStart, copyValues)>>)

vectorVolumesData(d, file, indexStart, count) ==
  IF (count < 1) \/ (indexStart >= d.volumesCount) THEN NoResult
  ELSE IF d.mTs >= d.mTimesteps THEN NoResult
  ELSE LET copyValues == Min(d.volumesCount - indexStart, count)
           vals_x == readDoubleArr(file, d.mNcidX, d.mTs, indexStart, copyValues)
           vals_y == readDoubleArr(file, d.mNcidY, d.mTs, indexStart, copyValues)
           \* buffer[2 * i] = vals_x[i]; buffer[2 * i + 1] = vals_y[i]
           interleaved == [s \in 1..(2 * copyValues) |->
                             IF s % 2 = 1 THEN vals_x[(s + 1) \div 2]
                                          ELSE vals_y[s \div 2]]
       IN  Result(copyValues, interleaved,
                  <<ReadDouble(d.mNcidX, d.mTs, indexStart, copyValues),
                    ReadDouble(d.mNcidY, d.mTs, indexStart, copyValues)>>)

\* memset( buffer, 1, n ) sets every byte to 1: an int of four such bytes.
MemsetOneInt == 16843009

activeVolumesData(d, file, indexStart, count) ==
  Result(count, [i \in 1..count |-> MemsetOneInt], <<>>)

-----------------------------------------------------------------------------
(* The files and datasets a check starts from *)

\* On-disk face-to-volume arrays (1-based): the stacked scenario of three
\* faces over six entries, and one whose entries are all distinct.
Idx3Arrays == { <<1, 1, 2, 3, 3, 3>>, <<1, 3, 4, 7, 2, 5>> }

OptionalArrays == {"NL", "layerface_Z", "idx3"}

AccessFiles ==
  [ present : {p \cup {"x", "y"} : p \in SUBSET OptionalArrays},
    idx3 : Idx3Arrays,
    nl : {[base |-> 1, peak |-> 3, at |-> 1]},
    cell_node : {<<>>},
    cell_Nvert : {<<>>} ]

NoFile ==
  [present |-> {}, idx3 |-> <<>>, nl |-> [base |-> 0, peak |-> 0, at |-> 0],
   cell_node |-> <<>>, cell_Nvert |-> <<>>]

\* Members of the Dataset base class, which every accessor-independent
\* operation of mdal.cpp reads.
DatasetBase(valuesCount, supportsActiveFlag) ==
  [valuesCount |-> valuesCount, supportsActiveFlag |-> supportsActiveFlag]

Extend(rec, extra) ==
  [k \in (DOMAIN rec) \cup (DOMAIN extra) |->
     IF k \in DOMAIN extra THEN extra[k] ELSE rec[k]]

\* A dataset of a group on vertices or on faces: its value count is the
\* count of the mesh elements it lies on.
Dataset2D(valuesCount, supportsActiveFlag) ==
  Extend(TuflowFVDataset3D(-1, -1, 0, 0, 0, 0, 0, 0, NoFile),
         DatasetBase(valuesCount, supportsActiveFlag))

\* A dataset as DriverTuflowFV::create3DDataset builds it over a file.
Datasets3DOver(file, timestepCounts, activeFlags) ==
  { Extend(TuflowFVDataset3D(arrId(file, "x"), arrId(file, "y"), timesteps,
                             volumesCount, facesCount, levelFacesCount, ts, 0, file),
           DatasetBase(volumesCount, supportsActiveFlag)) :
      timesteps \in timestepCounts, ts \in 0..MaxTimesteps,
      volumesCount \in 0..MaxVolumes, facesCount \in 0..MaxFaces,
      levelFacesCount \in 0..MaxLevelFaces, supportsActiveFlag \in activeFlags }

Datasets3D(file) == Datasets3DOver(file, 0..MaxTimesteps, {FALSE})

Group3D(isScalar) == [dataLocation |-> "DataOnVolumes3D", isScalar |-> isScalar]

NoCall == [op |-> "none", handle |-> "dataset", dataType |-> "none", indexStart |-> 0, count |-> 0]

Accessor(op, indexStart, count) == [op |-> op, indexStart |-> indexStart, count |-> count]

NoAccessor == Accessor("none", 0, 0)

\* The values the variables of a machine keep while another one runs.
IdleAccess ==
  /\ dataset = Dataset2D(0, FALSE)
  /\ group = Group3D(TRUE)
  /\ mesh = [facesCount |-> 0, verticesCount |-> 0]
  /\ sLastStatus = "None"
  /\ ret = 0
  /\ buffer = <<>>
  /\ reads = <<>>
  /\ invoked = NoAccessor

IdleFaces ==
  /\ mDimensions = [Face2D |-> 0, Vertex2D |-> 0, MaxVerticesInFace |-> 0]
  /\ faces = <<>>
  /\ ndebug = FALSE

IdleLevels ==
  /\ mMaximumLevelsCount = NotComputed
  /\ datasets3D = <<>>
  /\ scanCompleted = FALSE
  /\ calls = 0

IdleNaming ==
  /\ long_name = <<>>
  /\ variableName = <<>>
  /\ name = <<>>
  /\ is_vector = FALSE
  /\ is_x = FALSE

IdleGroup ==
  /\ driver = [registered |-> FALSE, writes |-> {}]
  /\ events = <<>>

InitAccess ==
  /\ IdleFaces
  /\ IdleLevels
  /\ IdleNaming
  /\ IdleGroup
  /\ ncFile \in AccessFiles
  /\ dataset \in Datasets3D(ncFile)
  /\ Len(ncFile.idx3) >= dataset.mFacesCount
  /\ group = Group3D(TRUE)
  /\ mesh = [facesCount |-> dataset.mFacesCount, verticesCount |-> 0]
  /\ sLastStatus = "None"
  /\ pc = "start"
  /\ call = NoCall
  /\ ret = 0
  /\ buffer = <<>>
  /\ reads = <<>>
  /\ invoked = NoAccessor

\* A direct call of one accessor with a window ( indexStart, count ).
Apply(op, indexStart, count, result) ==
  /\ pc = "start"
  /\ pc' = "done"
  /\ call' = [NoCall EXCEPT !.op = op, !.indexStart = indexStart, !.count = count]
  /\ invoked' = Accessor(op, indexStart, count)
  /\ ret' = result.ret
  /\ buffer' = result.buf
  /\ reads' = result.reads
  /\ UNCHANGED <<dataset, group, mesh, ncFile, sLastStatus, notAccessVars>>

CallVerticalLevelCountData ==
  \E indexStart \in 0..MaxIndex, count \in 0..MaxCount :
    Apply("verticalLevelCountData", indexStart, count,
          verticalLevelCountData(dataset, ncFile, indexStart, count))

CallVerticalLevelData ==
  \E indexStart \in 0..MaxIndex, count \in 0..MaxCount :
    Apply("verticalLevelData", indexStart, count,
          verticalLevelData(dataset, ncFile, indexStart, count))

\* The counts include the whole length of the on-disk array.
CallFaceToVolumeData ==
  \E indexStart \in 0..MaxIndex, count \in (0..MaxCount) \cup {Len(ncFile.idx3)} :
    Apply("faceToVolumeData", indexStart, count,
          faceToVolumeData(dataset, ncFile, indexStart, count))

CallScalarVolumesData ==
  \E indexStart \in 0..MaxIndex, count \in 0..MaxCount :
    Apply("scalarVolumesData", indexStart, count,
          scalarVolumesData(dataset, ncFile, indexStart, count))

CallVectorVolumesData ==
  \E indexStart \in 0..MaxIndex, count \in 0..MaxCount :
    Apply("vectorVolumesData", indexStart, count,
          vectorVolumesData(dataset, ncFile, indexStart, count))

CallActiveVolumesData ==
  \E indexStart \in 0..MaxIndex, count \in 0..MaxCount :
    Apply("activeVolumesData", indexStart, count,
          activeVolumesData(dataset, ncFile, indexStart, count))

NextAccess ==
  \/ CallVerticalLevelCountData
  \/ CallVerticalLevelData
  \/ CallFaceToVolumeData
  \/ CallScalarVolumesData
  \/ CallVectorVolumesData
  \/ CallActiveVolumesData

SpecAccess == InitAccess /\ [][NextAccess]_vars

-----------------------------------------------------------------------------
(* Claims on the accessors of TuflowFVDataset3D (SpecAccess) *)

Done(op) == pc = "done" /\ call.op = op

\* The extent an accessor pages over.
Extent(op) ==
  CASE op \in {"verticalLevelCountData", "faceToVolumeData"} -> dataset.mFacesCount
    [] op = "verticalLevelData" -> dataset.mLevelFacesCount
    [] OTHER -> dataset.volumesCount

\* Whether the optional array behind an accessor is in the file.
ArrayPresent(op) ==
  CASE op = "verticalLevelCountData" -> dataset.mNcidVerticalLevels >= 0
    [] op = "verticalLevelData" -> dataset.mNcidVerticalLevelsZ >= 0
    [] op = "faceToVolumeData" -> dataset.mNcid2DTo3D >= 0
    [] OTHER -> TRUE

\* The pagination contract: the count a window over an extent yields.
Paged(extent, indexStart, count) ==
  IF indexStart < extent THEN Min(count, extent - indexStart) ELSE 0

PagedAccessors ==
  {"verticalLevelCountData", "faceToVolumeData", "verticalLevelData",
   "scalarVolumesData", "vectorVolumesData"}

\* C1: each of the five accessors, with its array present and the timestep
\* index below the timestep count, returns for every indexStart and every
\* count >= 1 exactly min(count, extent - indexStart) when indexStart < extent
\* and 0 when indexStart >= extent.
C1_AccessorPagination ==
  (/\ pc = "done"
   /\ call.op \in PagedAccessors
   /\ ArrayPresent(call.op)
   /\ dataset.mTs < dataset.mTimesteps
   /\ call.count >= 1)
  => ret = Paged(Extent(call.op), call.indexStart, call.count)

\* A window the level-geometry accessor clamps: it starts inside the extent
\* and asks for more than is left.
C1_Witness ==
  /\ Done("verticalLevelData")
  /\ ArrayPresent("verticalLevelData")
  /\ dataset.mTs < dataset.mTimesteps
  /\ dataset.mLevelFacesCount > dataset.mFacesCount
  /\ call.indexStart >= 1
  /\ call.indexStart < dataset.mLevelFacesCount
  /\ call.count > dataset.mLevelFacesCount - call.indexStart
  /\ ret = dataset.mLevelFacesCount - call.indexStart

\* C2: activeVolumesData pages like every other read of the 3D dataset: over
\* the volumes count it reports min(count, extent - indexStart) flags when
\* indexStart < extent and 0 otherwise, and writes no more flags than that.
C2_ActiveVolumesPagination ==
  Done("activeVolumesData")
  => /\ ret = Paged(dataset.volumesCount, call.indexStart, call.count)
     /\ Len(buffer) <= Paged(dataset.volumesCount, call.indexStart, call.count)

\* C5 as amended: faceToVolumeData returns n = min(count, faceCount - indexStart)
\* entries, entry i of them being e - 1 for the on-disk entry e at
\* indexStart + i; on-disk entries at or past the face count are not returned.
\* With face count 3 and the on-disk array [1,1,2,3,3,3] a read of (0, 6)
\* returns the three entries [0,0,1].
C5_FaceToVolumeDecrement ==
  (Done("faceToVolumeData") /\ ArrayPresent("faceToVolumeData") /\ call.count >= 1)
  => /\ ret = Paged(dataset.mFacesCount, call.indexStart, call.count)
     /\ Len(buffer) = ret
     /\ \A i \in 1..ret : buffer[i] = ncFile.idx3[call.indexStart + i] - 1
     /\ (/\ dataset.mFacesCount = 3
         /\ ncFile.idx3 = <<1, 1, 2, 3, 3, 3>>
         /\ call.indexStart = 0
         /\ call.count = 6) => buffer = <<0, 0, 1>>

\* The scenario's read: three faces, six on-disk entries, the window (0, 6).
C5_Witness ==
  /\ Done("faceToVolumeData")
  /\ ArrayPresent("faceToVolumeData")
  /\ dataset.mFacesCount = 3
  /\ ncFile.idx3 = <<1, 1, 2, 3, 3, 3>>
  /\ call.indexStart = 0
  /\ call.count = 6
  /\ ret = 3

\* C5 as stated: every returned position i holds e - 1 for the on-disk entry
\* e at indexStart + i, and with face count 3 the read over the full range of
\* the on-disk array [1,1,2,3,3,3] returns the full array decremented,
\* [0,0,1,2,2,2].
C5_Original ==
  (Done("faceToVolumeData") /\ ArrayPresent("faceToVolumeData"))
  => /\ \A i \in 1..ret : buffer[i] = ncFile.idx3[call.indexStart + i] - 1
     /\ (/\ dataset.mFacesCount = 3
         /\ ncFile.idx3 = <<1, 1, 2, 3, 3, 3>>
         /\ call.indexStart = 0
         /\ call.count = 6) => buffer = <<0, 0, 1, 2, 2, 2>>

\* Nothing was read from the Array Source and nothing written to the buffer.
Untouched == ret = 0 /\ buffer = <<>> /\ reads = <<>>

\* C15: unavailable data yields 0 with no read and no write: the level
\* counts, the level geometry and the face-to-volume map when their array
\* (NL, layerface_Z, idx3) has a negative identifier; the level geometry and
\* the scalar and vector values when the timestep index is not below the
\* timestep count.  The level counts and the face-to-volume map do not
\* depend on the timestep index: they page over the faces whatever it is.
C15_UnavailableYieldsZero ==
  pc = "done"
  => /\ (call.op \in {"verticalLevelCountData", "verticalLevelData", "faceToVolumeData"} /\ ~ArrayPresent(call.op))
          => Untouched
     /\ (call.op \in {"verticalLevelData", "scalarVolumesData", "vectorVolumesData"} /\ dataset.mTs >= dataset.mTimesteps)
          => Untouched
     /\ (call.op \in {"verticalLevelCountData", "faceToVolumeData"} /\ ArrayPresent(call.op) /\ call.count >= 1)
          => /\ ret = Paged(dataset.mFacesCount, call.indexStart, call.count)
             /\ Len(buffer) = ret
             /\ \A i \in 1..ret :
                  buffer[i] = (IF call.op = "verticalLevelCountData"
                                 THEN NLAt(ncFile, call.indexStart + i - 1)
                                 ELSE ncFile.idx3[call.indexStart + i] - 1)

\* The scalar values asked for inside the volumes, at a timestep index that
\* is not below the timestep count.
C15_Witness ==
  /\ Done("scalarVolumesData")
  /\ dataset.mTs >= dataset.mTimesteps
  /\ dataset.mTimesteps >= 1
  /\ call.indexStart < dataset.volumesCount
  /\ call.count >= 1
  /\ Untouched

\* C16: vectorVolumesData, for indexStart < volumes count, count >= 1 and the
\* timestep in range, reads the window [indexStart, indexStart + n) of the x
\* array and of the y array, n = min(count, volumesCount - indexStart),
\* writes 2n doubles, buffer[2i] = x[indexStart + i] and buffer[2i + 1] =
\* y[indexStart + i] for i < n, and returns n.
C16_VectorInterleave ==
  (/\ Done("vectorVolumesData")
   /\ call.indexStart < dataset.volumesCount
   /\ call.count >= 1
   /\ dataset.mTs < dataset.mTimesteps)
  => LET n == Min(call.count, dataset.volumesCount - call.indexStart)
     IN /\ ret = n
        /\ Len(buffer) = 2 * n
        /\ \A i \in 0..(n - 1) :
             /\ buffer[2 * i + 1] = DoubleAt("x", dataset.mTs, call.indexStart + i)
             /\ buffer[2 * i + 2] = DoubleAt("y", dataset.mTs, call.indexStart + i)
        /\ reads = << [arr |-> "x", ts |-> dataset.mTs, start |-> call.indexStart, count |-> n],
                      [arr |-> "y", ts |-> dataset.mTs, start |-> call.indexStart, count |-> n] >>

\* The pairs of all the volumes read, more having been asked for.
C16_Witness ==
  /\ Done("vectorVolumesData")
  /\ dataset.mTs < dataset.mTimesteps
  /\ call.indexStart = 0
  /\ call.count > MaxVolumes
  /\ dataset.volumesCount = MaxVolumes
  /\ ret = MaxVolumes
  /\ Len(buffer) = 2 * MaxVolumes

-----------------------------------------------------------------------------
(* MDAL_D_data, the dispatcher of mdal.cpp *)

Locations2D == {"DataOnVertices2D", "DataOnFaces2D"}

DataTypes ==
  {"SCALAR_DOUBLE", "VECTOR_2D_DOUBLE", "ACTIVE_INTEGER",
   "VERTICAL_LEVEL_COUNT_INTEGER", "VERTICAL_LEVEL_DOUBLE",
   "FACE_INDEX_TO_VOLUME_INDEX_INTEGER", "SCALAR_VOLUMES_DOUBLE",
   "VECTOR_2D_VOLUMES_DOUBLE"}

\* Mutant: the scalar-on-volumes case checks the location and forgets the
\* scalar flag.
KindCompatible_noScalarCheck(dataType, g, d) ==
  CASE dataType = "SCALAR_DOUBLE" ->
         g.isScalar /\ g.dataLocation \in Locations2D
    [] dataType = "VECTOR_2D_DOUBLE" ->
         ~g.isScalar /\ g.dataLocation \in Locations2D
    [] dataType = "ACTIVE_INTEGER" ->
         d.supportsActiveFlag
    [] dataType = "SCALAR_VOLUMES_DOUBLE" ->
         g.dataLocation = "DataOnVolumes3D"
    [] dataType = "VECTOR_2D_VOLUMES_DOUBLE" ->
         g.dataLocation = "DataOnVolumes3D" /\ ~g.isScalar
    [] OTHER ->
         g.dataLocation = "DataOnVolumes3D"

\* The first switch of MDAL_D_data: whether the requested kind passes the
\* checks of its case against the group and the dataset.
KindCompatible(dataType, g, d) ==
  CASE dataType = "SCALAR_DOUBLE" ->
         g.isScalar /\ g.dataLocation \in Locations2D
    [] dataType = "VECTOR_2D_DOUBLE" ->
         ~g.isScalar /\ g.dataLocation \in Locations2D
    [] dataType = "ACTIVE_INTEGER" ->
         d.supportsActiveFlag
    [] dataType = "VERTICAL_LEVEL_COUNT_INTEGER" ->
         g.dataLocation = "DataOnVolumes3D"
    [] dataType = "VERTICAL_LEVEL_DOUBLE" ->
         g.dataLocation = "DataOnVolumes3D"
    [] dataType = "FACE_INDEX_TO_VOLUME_INDEX_INTEGER" ->
         g.dataLocation = "DataOnVolumes3D"
    [] dataType = "SCALAR_VOLUMES_DOUBLE" ->
         g.dataLocation = "DataOnVolumes3D" /\ g.isScalar
    [] dataType = "VECTOR_2D_VOLUMES_DOUBLE" ->
         g.dataLocation = "DataOnVolumes3D" /\ ~g.isScalar

\* The first switch of MDAL_D_data: the value count its case expects.
ExpectedValuesCount(dataType, d, m) ==
  CASE dataType = "SCALAR_DOUBLE" -> d.valuesCount
    [] dataType = "VECTOR_2D_DOUBLE" -> d.valuesCount
    [] dataType = "ACTIVE_INTEGER" -> m.facesCount
    [] dataType = "VERTICAL_LEVEL_COUNT_INTEGER" -> m.facesCount
    [] dataType = "VERTICAL_LEVEL_DOUBLE" -> m.facesCount + d.volumesCount
    [] dataType = "FACE_INDEX_TO_VOLUME_INDEX_INTEGER" -> m.facesCount
    [] dataType = "SCALAR_VOLUMES_DOUBLE" -> d.volumesCount
    [] dataType = "VECTOR_2D_VOLUMES_DOUBLE" -> 2 * d.volumesCount

\* Mutant: the first check off by one, a window starting at the total passes.
WindowRejected_startAtTotal(valuesCount, indexStartSizeT, countSizeT) ==
  \/ valuesCount < indexStartSizeT
  \/ valuesCount < (indexStartSizeT + countSizeT) % SizeTModulus

\* "Check that we are not reaching out of values limit", in size_t.
WindowRejected(valuesCount, indexStartSizeT, countSizeT) ==
  \/ valuesCount <= indexStartSizeT
  \/ valuesCount < (indexStartSizeT + countSizeT) % SizeTModulus

\* The accessors of a dataset on a 2D location: the pagination contract over
\* the dataset's values, two doubles a value for a vector.
Data2D(d, extent, indexStart, count, width) ==
  LET n == Paged(extent, indexStart, count)
  IN  Result(n, [s \in 1..(width * n) |-> DoubleAt("values", 0, width * indexStart + s - 1)], <<>>)

\* The second switch of MDAL_D_data: the accessor a kind is routed to.
AccessorOf(dataType) ==
  CASE dataType = "SCALAR_DOUBLE" -> "scalarData"
    [] dataType = "VECTOR_2D_DOUBLE" -> "vectorData"
    [] dataType = "ACTIVE_INTEGER" -> "activeData"
    [] dataType = "VERTICAL_LEVEL_COUNT_INTEGER" -> "verticalLevelCountData"
    [] dataType = "VERTICAL_LEVEL_DOUBLE" -> "verticalLevelData"
    [] dataType = "FACE_INDEX_TO_VOLUME_INDEX_INTEGER" -> "faceToVolumeData"
    [] dataType = "SCALAR_VOLUMES_DOUBLE" -> "scalarVolumesData"
    [] dataType = "VECTOR_2D_VOLUMES_DOUBLE" -> "vectorVolumesData"

\* The virtual call on the dataset.
RunAccessor(op, d, m, file, indexStart, count) ==
  CASE op = "scalarData" -> Data2D(d, d.valuesCount, indexStart, count, 1)
    [] op = "vectorData" -> Data2D(d, d.valuesCount, indexStart, count, 2)
    [] op = "activeData" -> Data2D(d, m.facesCount, indexStart, count, 1)
    [] op = "verticalLevelCountData" -> verticalLevelCountData(d, file, indexStart, count)
    [] op = "verticalLevelData" -> verticalLevelData(d, file, indexStart, count)
    [] op = "faceToVolumeData" -> faceToVolumeData(d, file, indexStart, count)
    [] op = "scalarVolumesData" -> scalarVolumesData(d, file, indexStart, count)
    [] op = "vectorVolumesData" -> vectorVolumesData(d, file, indexStart, count)

\* A call that returns 0 with the status set, no accessor run, nothing written.
Refused(status) ==
  /\ sLastStatus' = status
  /\ ret' = 0
  /\ buffer' = <<>>
  /\ reads' = <<>>
  /\ invoked' = NoAccessor

\* A null handle is refused whatever the window: one window stands for all.
MDAL_D_data ==
  \E handle \in {"null", "dataset"}, dataType \in DataTypes :
  \E indexStart \in IF handle = "null" THEN {0} ELSE (-MaxNegative)..MaxIndex,
     count \in IF handle = "null" THEN {1} ELSE (-MaxNegative)..MaxCount :
    /\ pc = "start"
    /\ pc' = "done"
    /\ call' = [op |-> "MDAL_D_data", handle |-> handle, dataType |-> dataType,
                indexStart |-> indexStart, count |-> count]
    /\ UNCHANGED <<dataset, group, mesh, ncFile, notAccessVars>>
    /\ IF handle = "null"
         THEN Refused("Err_IncompatibleDataset")
         ELSE LET indexStartSizeT == ToSizeT(indexStart)
                  countSizeT == ToSizeT(count)
                  valuesCount == ExpectedValuesCount(dataType, dataset, mesh)
              IN  IF ~KindCompatible(dataType, group, dataset)
                    THEN Refused("Err_IncompatibleDataset")
                  ELSE IF WindowRejected(valuesCount, indexStartSizeT, countSizeT)
                    THEN Refused("Err_IncompatibleDataset")
                  ELSE LET result == RunAccessor(AccessorOf(dataType), dataset, mesh,
                                                 ncFile, indexStartSizeT, countSizeT)
                       IN  /\ invoked' = Accessor(AccessorOf(dataType), indexStartSizeT, countSizeT)
                           /\ ret' = result.ret
                           /\ buffer' = result.buf
                           /\ reads' = result.reads
                           /\ UNCHANGED sLastStatus

DataFiles == {f \in AccessFiles : f.present = OptionalArrays \cup {"x", "y"}
                                  /\ f.idx3 = <<1, 1, 2, 3, 3, 3>>}

Statuses ==
  {"None", "Err_NotEnoughMemory", "Err_FileNotFound", "Err_UnknownFormat",
   "Err_IncompatibleMesh", "Err_InvalidData", "Err_IncompatibleDataset",
   "Err_IncompatibleDatasetGroup", "Err_MissingDriver", "Err_MissingDriverCapability"}

InitData3D ==
  /\ ncFile \in DataFiles
  /\ dataset \in Datasets3DOver(ncFile, {MaxTimesteps}, {FALSE})
  /\ group \in {Group3D(isScalar) : isScalar \in BOOLEAN}
  /\ mesh = [facesCount |-> dataset.mFacesCount, verticesCount |-> 0]

InitData2D ==
  /\ ncFile \in DataFiles
  /\ mesh \in [facesCount : 0..MaxFaces, verticesCount : 0..MaxVolumes]
  /\ group \in [dataLocation : Locations2D, isScalar : BOOLEAN]
  /\ dataset \in {Dataset2D(IF group.dataLocation = "DataOnVertices2D"
                              THEN mesh.verticesCount ELSE mesh.facesCount, a) :
                    a \in BOOLEAN}

InitData ==
  /\ IdleFaces
  /\ IdleLevels
  /\ IdleNaming
  /\ IdleGroup
  /\ InitData3D \/ InitData2D
  /\ sLastStatus = "None"
  /\ pc = "start"
  /\ call = NoCall
  /\ ret = 0
  /\ buffer = <<>>
  /\ reads = <<>>
  /\ invoked = NoAccessor

NextData == MDAL_D_data

SpecData == InitData /\ [][NextData]_vars

-----------------------------------------------------------------------------
(* Claims on MDAL_D_data (SpecData) *)

DataDone == pc = "done" /\ call.op = "MDAL_D_data" /\ call.handle = "dataset"

Kinds3D ==
  {"VERTICAL_LEVEL_COUNT_INTEGER", "VERTICAL_LEVEL_DOUBLE",
   "FACE_INDEX_TO_VOLUME_INDEX_INTEGER", "SCALAR_VOLUMES_DOUBLE",
   "VECTOR_2D_VOLUMES_DOUBLE"}

\* A kind that disagrees with the group in its scalar/vector expectation or in
\* the location it needs.
Disagrees(dataType, g) ==
  \/ dataType \in {"SCALAR_DOUBLE", "SCALAR_VOLUMES_DOUBLE"} /\ ~g.isScalar
  \/ dataType \in {"VECTOR_2D_DOUBLE", "VECTOR_2D_VOLUMES_DOUBLE"} /\ g.isScalar
  \/ dataType \in {"SCALAR_DOUBLE", "VECTOR_2D_DOUBLE"} /\ g.dataLocation = "DataOnVolumes3D"
  \/ dataType \in Kinds3D /\ g.dataLocation \in Locations2D

\* The call returned 0 with the status IncompatibleDataset, ran no accessor,
\* read nothing and left the buffer as it was.
RejectedIncompatible ==
  /\ ret = 0
  /\ sLastStatus = "Err_IncompatibleDataset"
  /\ invoked = NoAccessor
  /\ buffer = <<>>
  /\ reads = <<>>

\* C3: MDAL_D_data rejects (returns 0, status IncompatibleDataset, no accessor
\* called) every request whose kind disagrees with the group: a scalar kind on
\* a vector group, a vector kind on a scalar group, a 2D value kind on a group
\* on volumes, a 3D-only kind on a group on vertices or faces.
C3_KindMismatchRejected ==
  (DataDone /\ Disagrees(call.dataType, group)) => RejectedIncompatible

\* A scalar-on-volumes request on a vector group on volumes, its window
\* inside the data: only the kind stands against it.
C3_Witness ==
  /\ DataDone
  /\ call.dataType = "SCALAR_VOLUMES_DOUBLE"
  /\ group.dataLocation = "DataOnVolumes3D"
  /\ ~group.isScalar
  /\ call.indexStart = 0
  /\ call.count = 1
  /\ dataset.volumesCount >= 1
  /\ dataset.mTs < dataset.mTimesteps
  /\ RejectedIncompatible

\* The value count the claim gives for each kind.
C4_Total(dataType) ==
  CASE dataType \in {"SCALAR_DOUBLE", "VECTOR_2D_DOUBLE"} -> dataset.valuesCount
    [] dataType \in {"ACTIVE_INTEGER", "VERTICAL_LEVEL_COUNT_INTEGER",
                     "FACE_INDEX_TO_VOLUME_INDEX_INTEGER"} -> mesh.facesCount
    [] dataType = "VERTICAL_LEVEL_DOUBLE" -> mesh.facesCount + dataset.volumesCount
    [] dataType = "SCALAR_VOLUMES_DOUBLE" -> dataset.volumesCount
    [] dataType = "VECTOR_2D_VOLUMES_DOUBLE" -> dataset.volumesCount + dataset.volumesCount

\* A kind the group and the dataset accept.
C4_Compatible ==
  /\ ~Disagrees(call.dataType, group)
  /\ call.dataType = "ACTIVE_INTEGER" => dataset.supportsActiveFlag

\* C4: for non-negative indexStart and count and a kind compatible with the
\* group, MDAL_D_data rejects the window whenever indexStart >= total or
\* indexStart + count > total, total being the kind's expected value count:
\* it returns 0, sets IncompatibleDataset, runs no accessor and leaves the
\* buffer unchanged.
C4_WindowRejected ==
  (/\ DataDone
   /\ C4_Compatible
   /\ call.indexStart >= 0
   /\ call.count >= 0
   /\ \/ call.indexStart >= C4_Total(call.dataType)
      \/ call.indexStart + call.count > C4_Total(call.dataType))
  => RejectedIncompatible

\* A window that starts inside the level geometry and ends past its total.
C4_Witness ==
  /\ DataDone
  /\ call.dataType = "VERTICAL_LEVEL_DOUBLE"
  /\ group.dataLocation = "DataOnVolumes3D"
  /\ mesh.facesCount >= 1
  /\ dataset.volumesCount >= 1
  /\ call.indexStart = 1
  /\ call.count = mesh.facesCount + dataset.volumesCount
  /\ RejectedIncompatible

\* C17: the dispatcher and the 3D accessors agree on the extents: whenever
\* MDAL_D_data accepts a window with count >= 1 for a 3D kind on a dataset
\* whose arrays are present and whose timestep is in range, the accessor it
\* delegates to returns exactly count elements.  Stated for the files whose
\* stacked-layer-entry count is the sum of their face and volume counts.
C17_DispatcherAccessorAgree ==
  (/\ DataDone
   /\ call.dataType \in Kinds3D
   /\ invoked # NoAccessor
   /\ call.count >= 1
   /\ dataset.mTs < dataset.mTimesteps
   /\ dataset.mLevelFacesCount = mesh.facesCount + dataset.volumesCount)
  => ret = call.count

\* C18: MDAL_D_data runs an accessor only for a window inside the data: for
\* all int arguments, negative ones included, only if indexStart >= 0,
\* count >= 0 and indexStart + count <= total as integers; a request with a
\* negative indexStart or a negative count is rejected with 0 and
\* IncompatibleDataset.
C18_OnlyWindowsInside ==
  DataDone
  => /\ invoked # NoAccessor
          => /\ call.indexStart >= 0
             /\ call.count >= 0
             /\ call.indexStart + call.count <= C4_Total(call.dataType)
     /\ (call.indexStart < 0 \/ call.count < 0) => RejectedIncompatible

-----------------------------------------------------------------------------
(* DriverTuflowFV::populateFaces *)

\* Mutant: the connectivity read as if the faces were packed one after the
\* other, the stride being the face's own vertex count.
FaceVertices_packed(file, dims, i) ==
  LET nVertices == ToSizeT(file.cell_Nvert[i + 1])
  IN  [j \in 1..nVertices |-> ToSizeT(file.cell_node[nVertices * i + (j - 1) + 1] - 1)]

\* The inner loop for face i (0-based): the first nVertices slots of the
\* face's stride, each converted from 1-based to 0-based in a size_t.
FaceVertices(file, dims, i) ==
  LET verticesInFace == dims.MaxVerticesInFace
      nVertices == ToSizeT(file.cell_Nvert[i + 1])
  IN  [j \in 1..nVertices |-> ToSizeT(file.cell_node[verticesInFace * i + (j - 1) + 1] - 1)]

\* assert( val < vertexCount ) fails for some index of some face.
AssertionFails(file, dims) ==
  \E i \in 0..(dims.Face2D - 1) :
    \E j \in 1..Len(FaceVertices(file, dims, i)) :
      ~(FaceVertices(file, dims, i)[j] < dims.Vertex2D)

\* The whole of populateFaces.  A build with assert() aborts the process at
\* the first index that is not below the vertex count; a build with NDEBUG
\* has no such check and stores the index.
populateFaces ==
  /\ pc = "start"
  /\ call' = [NoCall EXCEPT !.op = "populateFaces"]
  /\ IF ~ndebug /\ AssertionFails(ncFile, mDimensions)
       THEN /\ pc' = "aborted"
            /\ faces' = <<>>
       ELSE /\ pc' = "done"
            /\ faces' = [i \in 1..mDimensions.Face2D |-> FaceVertices(ncFile, mDimensions, i - 1)]
  /\ UNCHANGED <<ncFile, mDimensions, ndebug, notFacesVars>>

\* The on-disk values a connectivity slot may hold for a mesh of n vertices:
\* the first and the last vertex, and one value on either side of the range.
NodeEntries(n) == {0, 1, n, n + 1}

\* The files of a mesh load: every connectivity over the entries, every
\* per-face vertex count up to the stride.
FaceFiles(dims) ==
  { [NoFile EXCEPT !.cell_node = conn, !.cell_Nvert = counts] :
      conn \in [1..(dims.Face2D * dims.MaxVerticesInFace) -> NodeEntries(dims.Vertex2D)],
      counts \in [1..dims.Face2D -> 0..dims.MaxVerticesInFace] }

\* The dimensions of the meshes checked: at most MaxConn connectivity slots.
FaceDimensions ==
  { d \in [Face2D : 0..MaxConn, Vertex2D : 1..MaxVertices, MaxVerticesInFace : 0..MaxConn] :
      d.Face2D * d.MaxVerticesInFace <= MaxConn }

\* Two triangles over four vertices, with a stride of three and of four.
ScenarioDimensions(stride) == [Face2D |-> 2, Vertex2D |-> 4, MaxVerticesInFace |-> stride]

ScenarioFile(stride) ==
  [NoFile EXCEPT !.cell_node = IF stride = 3 THEN <<1, 2, 3, 1, 3, 4>>
                                             ELSE <<1, 2, 3, 9, 1, 3, 4, 0>>,
                 !.cell_Nvert = <<3, 3>>]

InitFaces ==
  /\ IdleAccess
  /\ IdleLevels
  /\ IdleNaming
  /\ IdleGroup
  /\ \/ /\ mDimensions \in FaceDimensions
        /\ ncFile \in FaceFiles(mDimensions)
     \/ \E stride \in {3, 4} :
          /\ mDimensions = ScenarioDimensions(stride)
          /\ ncFile = ScenarioFile(stride)
  /\ faces = <<>>
  /\ ndebug \in BOOLEAN
  /\ pc = "start"
  /\ call = NoCall

NextFaces == populateFaces

SpecFaces == InitFaces /\ [][NextFaces]_vars

-----------------------------------------------------------------------------
(* Claims on populateFaces (SpecFaces) *)

FacesDone == pc = "done" /\ call.op = "populateFaces"

\* The on-disk entry of slot j (from 1) of face i (from 1).
NodeOnDisk(i, j) == ncFile.cell_node[mDimensions.MaxVerticesInFace * (i - 1) + j]

\* C6: populateFaces produces exactly faceCount faces in on-disk order; face i
\* is the list of length N_i (its per-face vertex count) whose j-th element is
\* connectivity[stride * i + j] - 1, as a size_t; the slots j >= N_i of the
\* face's stride are ignored.  Vertex count 4 and the on-disk faces
\* [[1,2,3],[1,3,4]] yield [[0,1,2],[0,2,3]].
C6_FacesFromConnectivity ==
  FacesDone
  => /\ Len(faces) = mDimensions.Face2D
     /\ \A i \in 1..mDimensions.Face2D :
          /\ Len(faces[i]) = ncFile.cell_Nvert[i]
          /\ \A j \in 1..ncFile.cell_Nvert[i] :
               /\ faces[i][j] = (NodeOnDisk(i, j) - 1) % SizeTModulus
               /\ NodeOnDisk(i, j) >= 1 => faces[i][j] = NodeOnDisk(i, j) - 1
     /\ (\E stride \in {3, 4} : /\ mDimensions = ScenarioDimensions(stride)
                                  /\ ncFile = ScenarioFile(stride))
          => faces = <<<<0, 1, 2>>, <<0, 2, 3>>>>

\* The two triangles read from a stride of four, the fourth slot of each
\* face holding a value that is no vertex.
C6_Witness ==
  /\ FacesDone
  /\ mDimensions = ScenarioDimensions(4)
  /\ ncFile.cell_node = <<1, 2, 3, 9, 1, 3, 4, 0>>
  /\ faces = <<<<0, 1, 2>>, <<0, 2, 3>>>>

\* C7: a used connectivity entry whose 0-based value is not below the vertex
\* count makes the load fail: no face list holding a vertex index >=
\* vertexCount is ever produced.
C7_OutOfRangeIsFatal ==
  FacesDone
  => \A i \in 1..Len(faces) : \A j \in 1..Len(faces[i]) :
       faces[i][j] < mDimensions.Vertex2D

-----------------------------------------------------------------------------
(* DriverTuflowFV::calculateMaximumLevelCount and create3DDataset *)

\* The most chunks a scan of the model's meshes takes.
MaxChunks == 2

\* The most calls made on one driver.
MaxCalls == 3

maxBufferLength == 1000

\* *std::max_element over the values of one read.
max_element(vals) == CHOOSE m \in {vals[k] : k \in 1..Len(vals)} : \A k \in 1..Len(vals) : vals[k] <= m

\* The same with the loop left at the first chunk that is not a full one.
RECURSIVE ScanLoop_fullChunksOnly(_, _, _, _, _, _)
ScanLoop_fullChunksOnly(file, ncid, facesCount, indexStart, running, failAt) ==
  LET copyValues == Min(ToSizeT(facesCount - indexStart), maxBufferLength)
      read == [id |-> ncid, ts |-> 0, start |-> indexStart, count |-> copyValues]
      rest == ScanLoop_fullChunksOnly(file, ncid, facesCount, indexStart + copyValues,
                       Max(running, max_element(readIntArr(file, ncid, indexStart, copyValues))),
                       failAt - 1)
  IN IF copyValues < maxBufferLength
       THEN [value |-> running, reads |-> <<>>, threw |-> FALSE]
       ELSE IF failAt = 0
              THEN [value |-> running, reads |-> <<read>>, threw |-> TRUE]
              ELSE [rest EXCEPT !.reads = <<read>> \o rest.reads]

\* The outcome of the while loop from the chunk that starts at indexStart:
\* the running maximum, the reads issued, and whether a read threw.  failAt
\* counts down the reads left before the Array Source fails (0: the next one).
RECURSIVE ScanLoop(_, _, _, _, _, _)
ScanLoop(file, ncid, facesCount, indexStart, running, failAt) ==
  LET copyValues == Min(ToSizeT(facesCount - indexStart), maxBufferLength)
      read == [id |-> ncid, ts |-> 0, start |-> indexStart, count |-> copyValues]
      rest == ScanLoop(file, ncid, facesCount, indexStart + copyValues,
                       Max(running, max_element(readIntArr(file, ncid, indexStart, copyValues))),
                       failAt - 1)
  IN IF copyValues <= 0
       THEN [value |-> running, reads |-> <<>>, threw |-> FALSE]
       ELSE IF failAt = 0
              THEN [value |-> running, reads |-> <<read>>, threw |-> TRUE]
              ELSE [rest EXCEPT !.reads = <<read>> \o rest.reads]

\* The same with the guard taken as "not positive" instead of "negative".
calculateMaximumLevelCount_zeroIsUncomputed(file, dims, memo, failAt) ==
  IF memo <= 0
    THEN IF arrId(file, "NL") < 0
           THEN [value |-> 0, reads |-> <<>>, threw |-> FALSE, scanned |-> TRUE]
           ELSE [scanned |-> TRUE] @@ ScanLoop(file, arrId(file, "NL"), dims.Face2D, 0, 0, failAt)
    ELSE [value |-> memo, reads |-> <<>>, threw |-> FALSE, scanned |-> FALSE]

\* calculateMaximumLevelCount: the new mMaximumLevelsCount, the reads issued
\* to the Array Source, whether a read threw, and whether the scan branch ran.
calculateMaximumLevelCount(file, dims, memo, failAt) ==
  IF memo < 0
    THEN IF arrId(file, "NL") < 0
           THEN [value |-> 0, reads |-> <<>>, threw |-> FALSE, scanned |-> TRUE]
           ELSE [scanned |-> TRUE] @@ ScanLoop(file, arrId(file, "NL"), dims.Face2D, 0, 0, failAt)
    ELSE [value |-> memo, reads |-> <<>>, threw |-> FALSE, scanned |-> FALSE]

\* The reads failAt may name: none fails (-1), or the k-th read of the call.
FailPoints == -1..MaxChunks

\* A call of calculateMaximumLevelCount alone.
CallCalculateMaximumLevelCount ==
  /\ calls < MaxCalls
  /\ \E failAt \in FailPoints :
       LET r == calculateMaximumLevelCount(ncFile, mDimensions, mMaximumLevelsCount, failAt)
       IN /\ mMaximumLevelsCount' = r.value
          /\ reads' = r.reads
          /\ scanCompleted' = (scanCompleted \/ (r.scanned /\ ~r.threw))
          /\ call' = [NoCall EXCEPT !.op = "calculateMaximumLevelCount"]
          /\ ret' = IF r.threw THEN "threw" ELSE "returned"
  /\ calls' = calls + 1
  /\ UNCHANGED <<ncFile, pc, mDimensions, datasets3D>>
  /\ UNCHANGED notLevelVars

\* create3DDataset for time step ts: the scan, then the dataset built with
\* the memoized value; a read that throws leaves no dataset.
create3DDataset ==
  /\ calls < MaxCalls
  /\ \E failAt \in FailPoints, ts \in 0..(MaxTimesteps - 1) :
       LET r == calculateMaximumLevelCount(ncFile, mDimensions, mMaximumLevelsCount, failAt)
           built == TuflowFVDataset3D(arrId(ncFile, "x"), arrId(ncFile, "y"), MaxTimesteps, mDimensions.Volume3D, mDimensions.Face2D, mDimensions.StackedFace3D, ts, r.value, ncFile)
       IN /\ mMaximumLevelsCount' = r.value
          /\ reads' = r.reads
          /\ scanCompleted' = (scanCompleted \/ (r.scanned /\ ~r.threw))
          /\ call' = [NoCall EXCEPT !.op = "create3DDataset", !.indexStart = ts]
          /\ ret' = IF r.threw THEN "threw" ELSE "returned"
          /\ datasets3D' = IF r.threw THEN datasets3D ELSE Append(datasets3D, built)
  /\ calls' = calls + 1
  /\ UNCHANGED <<ncFile, pc, mDimensions>>
  /\ UNCHANGED notLevelVars

\* Face counts around the chunk boundaries.
ScanFaceCounts == {c * maxBufferLength + r : c \in 0..MaxChunks, r \in {0, 1, maxBufferLength - 1}}

\* Layer-count arrays: base everywhere but at one position, which holds peak.
LevelArrays == [base : {-1, 1}, peak : {-2, 3}, at : {0, maxBufferLength - 1, maxBufferLength, MaxChunks * maxBufferLength}]

LevelFiles == [present : {{"NL", "x"}, {"x"}}, idx3 : {<<>>}, nl : LevelArrays, cell_node : {<<>>}, cell_Nvert : {<<>>}]

LevelDimensions == [Face2D : ScanFaceCounts, Vertex2D : {0}, MaxVerticesInFace : {0}, Volume3D : {MaxVolumes}, StackedFace3D : {MaxLevelFaces}]

InitLevels ==
  /\ IdleAccess
  /\ IdleNaming
  /\ IdleGroup
  /\ faces = <<>>
  /\ ndebug = FALSE
  /\ mDimensions \in LevelDimensions
  /\ ncFile \in LevelFiles
  /\ mMaximumLevelsCount = NotComputed
  /\ datasets3D = <<>>
  /\ scanCompleted = FALSE
  /\ calls = 0
  /\ pc = "start"
  /\ call = NoCall

NextLevels == CallCalculateMaximumLevelCount \/ create3DDataset

SpecLevels == InitLevels /\ [][NextLevels]_vars

-----------------------------------------------------------------------------
(* Claims on the maximum-levels-count (SpecLevels) *)

\* C8: the maximum-levels-count is computed once per driver: once a call of
\* create3DDataset or calculateMaximumLevelCount has completed its scan, no
\* later call issues a read of "NL" and the memoized value never changes.
C8_ComputedOnce ==
  [][scanCompleted => /\ reads' = <<>>
                      /\ mMaximumLevelsCount' = mMaximumLevelsCount]_vars

\* A second dataset built without a read, after a scan of three chunks found
\* the peak of the layer counts.
C8_Witness ==
  /\ scanCompleted
  /\ calls = MaxCalls
  /\ Len(datasets3D) >= 2
  /\ reads = <<>>
  /\ mDimensions.Face2D > MaxChunks * maxBufferLength
  /\ mMaximumLevelsCount = 3

-----------------------------------------------------------------------------
(* DriverTuflowFV::parseNetCDFVariableMetadata *)

\* The most vocabulary pieces a label is made of.
MaxTokens == 4

\* Strings are sequences of characters.
MaximumValueOf == <<"m", "a", "x", "i", "m", "u", "m", " ", "v", "a", "l", "u", "e", " ", "o", "f", " ">>

MinimumValueOf == <<"m", "i", "n", "i", "m", "u", "m", " ", "v", "a", "l", "u", "e", " ", "o", "f", " ">>

TimeAtMaximumValueOf == <<"t", "i", "m", "e", " ", "a", "t", " ", "m", "a", "x", "i", "m", "u", "m", " ", "v", "a", "l", "u", "e", " ", "o", "f", " ">>

TimeAtMinimumValueOf == <<"t", "i", "m", "e", " ", "a", "t", " ", "m", "i", "n", "i", "m", "u", "m", " ", "v", "a", "l", "u", "e", " ", "o", "f", " ">>

Maximums == <<"/", "M", "a", "x", "i", "m", "u", "m", "s">>

Minimums == <<"/", "M", "i", "n", "i", "m", "u", "m", "s">>

TimeAtMaximums == <<"/", "T", "i", "m", "e", " ", "a", "t", " ", "M", "a", "x", "i", "m", "u", "m", "s">>

TimeAtMinimums == <<"/", "T", "i", "m", "e", " ", "a", "t", " ", "M", "i", "n", "i", "m", "u", "m", "s">>

PrefixX == <<"x", "_">>

PrefixY == <<"y", "_">>

Velocity == <<"V", "e", "l", "o", "c", "i", "t", "y">>

VelocityMaximums == <<"V", "e", "l", "o", "c", "i", "t", "y", "/", "M", "a", "x", "i", "m", "u", "m", "s">>

\* MDAL::startsWith, case sensitive.
startsWith(str, substr) == Len(substr) <= Len(str) /\ SubSeq(str, 1, Len(substr)) = substr

\* MDAL::replace as the driver uses it, on a string that starts with substr:
\* the prefix gives way to replacestr.
replace(str, substr, replacestr) == IF startsWith(str, substr) THEN replacestr \o SubSeq(str, Len(substr) + 1, Len(str)) ELSE str

\* One statistic rule: a label that starts with prefix loses it and gains suffix.
StatisticRule(label, prefix, suffix) == IF startsWith(label, prefix) THEN replace(label, prefix, <<>>) \o suffix ELSE label

\* The same with the y_ branch leaving *is_x as initialised.
parseNetCDFVariableMetadata_yKeepsX(identifier, label) ==
  LET l1 == StatisticRule(label, MaximumValueOf, Maximums)
      l2 == StatisticRule(l1, MinimumValueOf, Minimums)
      l3 == StatisticRule(l2, TimeAtMaximumValueOf, TimeAtMaximums)
      l4 == StatisticRule(l3, TimeAtMinimumValueOf, TimeAtMinimums)
  IN IF label = <<>>
       THEN [name |-> identifier, is_vector |-> FALSE, is_x |-> TRUE]
       ELSE IF startsWith(l4, PrefixX)
              THEN [name |-> replace(l4, PrefixX, <<>>), is_vector |-> TRUE, is_x |-> TRUE]
              ELSE IF startsWith(l4, PrefixY)
                     THEN [name |-> replace(l4, PrefixY, <<>>), is_vector |-> TRUE, is_x |-> TRUE]
                     ELSE [name |-> l4, is_vector |-> FALSE, is_x |-> TRUE]

\* parseNetCDFVariableMetadata: the outputs for a variable identifier and the
\* value of its "long_name" attribute.
parseNetCDFVariableMetadata(identifier, label) ==
  LET l1 == StatisticRule(label, MaximumValueOf, Maximums)
      l2 == StatisticRule(l1, MinimumValueOf, Minimums)
      l3 == StatisticRule(l2, TimeAtMaximumValueOf, TimeAtMaximums)
      l4 == StatisticRule(l3, TimeAtMinimumValueOf, TimeAtMinimums)
  IN IF label = <<>>
       THEN [name |-> identifier, is_vector |-> FALSE, is_x |-> TRUE]
       ELSE IF startsWith(l4, PrefixX)
              THEN [name |-> replace(l4, PrefixX, <<>>), is_vector |-> TRUE, is_x |-> TRUE]
              ELSE IF startsWith(l4, PrefixY)
                     THEN [name |-> replace(l4, PrefixY, <<>>), is_vector |-> TRUE, is_x |-> FALSE]
                     ELSE [name |-> l4, is_vector |-> FALSE, is_x |-> TRUE]

CallParseNetCDFVariableMetadata ==
  /\ pc = "start"
  /\ LET out == parseNetCDFVariableMetadata(variableName, long_name)
     IN /\ name' = out.name
        /\ is_vector' = out.is_vector
        /\ is_x' = out.is_x
  /\ pc' = "done"
  /\ UNCHANGED <<long_name, variableName, notNamingVars>>

\* The pieces labels are made of, and the labels.
Vocabulary == {MaximumValueOf, MinimumValueOf, TimeAtMaximumValueOf, TimeAtMinimumValueOf, PrefixX, PrefixY, Velocity}

RECURSIVE Concat(_)
Concat(pieces) == IF pieces = <<>> THEN <<>> ELSE Head(pieces) \o Concat(Tail(pieces))

Labels == {Concat(pieces) : pieces \in UNION {[1..n -> Vocabulary] : n \in 0..MaxTokens}}

VariableNames == {<<"V", "_", "x">>, <<"H">>}

InitNaming ==
  /\ IdleAccess
  /\ IdleFaces
  /\ IdleLevels
  /\ IdleGroup
  /\ ncFile = NoFile
  /\ call = NoCall
  /\ pc = "start"
  /\ long_name \in Labels
  /\ variableName \in VariableNames
  /\ name = <<>>
  /\ is_vector \in BOOLEAN
  /\ is_x \in BOOLEAN

NextNaming == CallParseNetCDFVariableMetadata

SpecNaming == InitNaming /\ [][NextNaming]_vars

-----------------------------------------------------------------------------
(* Claims on the naming of variables (SpecNaming) *)

NamingDone == pc = "done" /\ name # <<>>

StatisticPrefix == <<MaximumValueOf, MinimumValueOf, TimeAtMaximumValueOf, TimeAtMinimumValueOf>>

StatisticSuffix == <<Maximums, Minimums, TimeAtMaximums, TimeAtMinimums>>

ComponentPrefix == [x |-> PrefixX, y |-> PrefixY, none |-> <<>>]

\* The pieces table[i] for the rules i of chosen, in the order of the rules.
RECURSIVE InRuleOrder(_, _, _)
InRuleOrder(chosen, table, i) ==
  IF i > Len(table) THEN <<>>
  ELSE (IF i \in chosen THEN table[i] ELSE <<>>) \o InRuleOrder(chosen, table, i + 1)

\* The label of the component comp of a quantity with the statistics chosen.
LabelOf(chosen, comp) == InRuleOrder(chosen, StatisticPrefix, 1) \o ComponentPrefix[comp] \o Velocity

\* C9: on a non-empty label parseNetCDFVariableMetadata applies the four
\* statistic-prefix rules in sequence, each stripping its prefix and appending
\* its suffix, and then classifies the remainder: "x_" gives (name without the
\* prefix, vector, x), "y_" gives (name without the prefix, vector, y),
\* anything else (name, scalar).  "x_Velocity" and "y_Velocity" both resolve
\* to "Velocity", as x and y; "maximum value of Velocity" to the scalar
\* "Velocity/Maximums"; the empty label to the variable identifier, a scalar.
C9_NamingRules ==
  pc = "done"
  => /\ \A chosen \in SUBSET (DOMAIN StatisticPrefix), comp \in {"x", "y", "none"} :
          long_name = LabelOf(chosen, comp)
          => /\ name = Velocity \o InRuleOrder(chosen, StatisticSuffix, 1)
             /\ is_vector = (comp # "none")
             /\ is_x = (comp # "y")
     /\ long_name = PrefixX \o Velocity => (name = Velocity /\ is_vector /\ is_x)
     /\ long_name = PrefixY \o Velocity => (name = Velocity /\ is_vector /\ ~is_x)
     /\ long_name = MaximumValueOf \o Velocity => (name = VelocityMaximums /\ ~is_vector)
     /\ long_name = <<>> => (name = variableName /\ ~is_vector)
     /\ (\A prefix \in Vocabulary \ {Velocity} : ~startsWith(long_name, prefix))
          => (name = (IF long_name = <<>> THEN variableName ELSE long_name) /\ ~is_vector)

\* The y component of the maximum and minimum of a quantity: two rules
\* applied, then the component prefix dropped.
C9_Witness ==
  /\ NamingDone
  /\ long_name = MaximumValueOf \o MinimumValueOf \o PrefixY \o Velocity
  /\ name = Velocity \o Maximums \o Minimums
  /\ is_vector
  /\ ~is_x

-----------------------------------------------------------------------------
(* The edit mode of a DatasetGroup: MDAL_G_addDataset, MDAL_G_closeEditMode *)

Locations == Locations2D \cup {"DataOnVolumes3D"}

\* A DatasetGroup: the members the two operations read and write.
DatasetGroup(dataLocation, inEditMode, datasets) == [dataLocation |-> dataLocation, isScalar |-> TRUE, inEditMode |-> inEditMode, datasets |-> datasets, statistics |-> "unset"]

\* A dataset a driver appends to a group.
MemoryDataset(time, active) == [time |-> time, active |-> active # "null"]

NullHandle == [handle |-> "null"]

\* The same without the test of the group's edit mode.
AddDatasetStatus_noEditCheck(handle, values, active, g, dr) ==
  IF handle = "null" THEN "Err_IncompatibleDataset"
  ELSE IF values = "null" THEN "Err_InvalidData"
  ELSE IF ~dr.registered THEN "Err_MissingDriver"
  ELSE IF g.dataLocation \notin dr.writes THEN "Err_MissingDriverCapability"
  ELSE IF g.dataLocation = "DataOnVolumes3D" THEN "Err_MissingDriverCapability"
  ELSE IF active # "null" /\ g.dataLocation # "DataOnVertices2D" THEN "Err_IncompatibleDataset"
  ELSE "None"

\* The same without the refusal of groups on volumes.
AddDatasetStatus_noVolumesCheck(handle, values, active, g, dr) ==
  IF handle = "null" THEN "Err_IncompatibleDataset"
  ELSE IF values = "null" THEN "Err_InvalidData"
  ELSE IF ~g.inEditMode THEN "Err_IncompatibleDataset"
  ELSE IF ~dr.registered THEN "Err_MissingDriver"
  ELSE IF g.dataLocation \notin dr.writes THEN "Err_MissingDriverCapability"
  ELSE IF active # "null" /\ g.dataLocation # "DataOnVertices2D" THEN "Err_IncompatibleDataset"
  ELSE "None"

\* The status MDAL_G_addDataset refuses a call with, "None" when it goes on
\* to the driver.
AddDatasetStatus(handle, values, active, g, dr) ==
  IF handle = "null" THEN "Err_IncompatibleDataset"
  ELSE IF values = "null" THEN "Err_InvalidData"
  ELSE IF ~g.inEditMode THEN "Err_IncompatibleDataset"
  ELSE IF ~dr.registered THEN "Err_MissingDriver"
  ELSE IF g.dataLocation \notin dr.writes THEN "Err_MissingDriverCapability"
  ELSE IF g.dataLocation = "DataOnVolumes3D" THEN "Err_MissingDriverCapability"
  ELSE IF active # "null" /\ g.dataLocation # "DataOnVertices2D" THEN "Err_IncompatibleDataset"
  ELSE "None"

MDAL_G_addDataset ==
  /\ calls < MaxCalls
  /\ \E handle \in {"null", "group"}, values \in {"null", "values"}, active \in {"null", "active"}, time \in 0..(MaxTimesteps - 1) :
       LET status == AddDatasetStatus(handle, values, active, group, driver)
       IN /\ call' = Extend([NoCall EXCEPT !.op = "MDAL_G_addDataset", !.handle = handle], [values |-> values, active |-> active, time |-> time])
          /\ IF status # "None"
               THEN /\ sLastStatus' = status
                    /\ ret' = NullHandle
                    /\ UNCHANGED <<group, events>>
               ELSE \* dr->createDataset appends a dataset to the group, or fails to
                    /\ events' = Append(events, "createDataset")
                    /\ \E created \in BOOLEAN :
                         IF created
                           THEN /\ group' = [group EXCEPT !.datasets = Append(@, MemoryDataset(time, active))]
                                /\ ret' = [handle |-> "dataset", index |-> Len(group.datasets)]
                           ELSE /\ group' = group
                                /\ ret' = NullHandle
                    /\ UNCHANGED sLastStatus
  /\ calls' = calls + 1
  /\ UNCHANGED <<driver, notGroupVars>>

\* The same with edit mode left only once the driver is known to be able to
\* write the group: a missing driver or capability leaves the group open.
MDAL_G_closeEditMode_closeOnSuccess ==
  /\ calls < MaxCalls
  /\ \E handle \in {"null", "group"} :
       /\ call' = [NoCall EXCEPT !.op = "MDAL_G_closeEditMode", !.handle = handle]
       /\ IF handle = "null"
            THEN /\ sLastStatus' = "Err_IncompatibleDataset"
                 /\ UNCHANGED <<group, events>>
            ELSE IF ~group.inEditMode
              THEN UNCHANGED <<sLastStatus, group, events>>
              ELSE IF ~driver.registered
                THEN /\ sLastStatus' = "Err_MissingDriver"
                     /\ group' = [group EXCEPT !.statistics = "set"]
                     /\ events' = events \o <<"setStatistics">>
                ELSE IF group.dataLocation \notin driver.writes
                  THEN /\ sLastStatus' = "Err_MissingDriverCapability"
                       /\ group' = [group EXCEPT !.statistics = "set"]
                       /\ events' = events \o <<"setStatistics">>
                  ELSE /\ group' = [group EXCEPT !.statistics = "set", !.inEditMode = FALSE]
                       /\ events' = events \o <<"setStatistics", "stopEditing", "persist">>
                       /\ \E error \in BOOLEAN :
                            sLastStatus' = IF error THEN "Err_InvalidData" ELSE sLastStatus
  /\ ret' = [handle |-> "void"]
  /\ calls' = calls + 1
  /\ UNCHANGED <<driver, notGroupVars>>

\* The same with the group persisted before its statistics are set.
MDAL_G_closeEditMode_persistFirst ==
  /\ calls < MaxCalls
  /\ \E handle \in {"null", "group"} :
       /\ call' = [NoCall EXCEPT !.op = "MDAL_G_closeEditMode", !.handle = handle]
       /\ IF handle = "null"
            THEN /\ sLastStatus' = "Err_IncompatibleDataset"
                 /\ UNCHANGED <<group, events>>
            ELSE IF ~group.inEditMode
              THEN UNCHANGED <<sLastStatus, group, events>>
              ELSE /\ group' = [group EXCEPT !.statistics = "set", !.inEditMode = FALSE]
                   /\ IF ~driver.registered
                        THEN /\ sLastStatus' = "Err_MissingDriver"
                             /\ events' = events \o <<"setStatistics", "stopEditing">>
                        ELSE IF group.dataLocation \notin driver.writes
                          THEN /\ sLastStatus' = "Err_MissingDriverCapability"
                               /\ events' = events \o <<"setStatistics", "stopEditing">>
                          ELSE /\ events' = events \o <<"persist", "setStatistics", "stopEditing">>
                               /\ \E error \in BOOLEAN :
                                    sLastStatus' = IF error THEN "Err_InvalidData" ELSE sLastStatus
  /\ ret' = [handle |-> "void"]
  /\ calls' = calls + 1
  /\ UNCHANGED <<driver, notGroupVars>>

MDAL_G_closeEditMode ==
  /\ calls < MaxCalls
  /\ \E handle \in {"null", "group"} :
       /\ call' = [NoCall EXCEPT !.op = "MDAL_G_closeEditMode", !.handle = handle]
       /\ IF handle = "null"
            THEN /\ sLastStatus' = "Err_IncompatibleDataset"
                 /\ UNCHANGED <<group, events>>
            ELSE IF ~group.inEditMode
              THEN UNCHANGED <<sLastStatus, group, events>>
              ELSE /\ group' = [group EXCEPT !.statistics = "set", !.inEditMode = FALSE]
                   /\ IF ~driver.registered
                        THEN /\ sLastStatus' = "Err_MissingDriver"
                             /\ events' = events \o <<"setStatistics", "stopEditing">>
                        ELSE IF group.dataLocation \notin driver.writes
                          THEN /\ sLastStatus' = "Err_MissingDriverCapability"
                               /\ events' = events \o <<"setStatistics", "stopEditing">>
                          ELSE /\ events' = events \o <<"setStatistics", "stopEditing", "persist">>
                               /\ \E error \in BOOLEAN :
                                    sLastStatus' = IF error THEN "Err_InvalidData" ELSE sLastStatus
  /\ ret' = [handle |-> "void"]
  /\ calls' = calls + 1
  /\ UNCHANGED <<driver, notGroupVars>>

Drivers == [registered : BOOLEAN, writes : SUBSET Locations]

InitGroup ==
  /\ IdleFaces
  /\ IdleNaming
  /\ ncFile = NoFile
  /\ pc = "start"
  /\ call = NoCall
  /\ dataset = Dataset2D(0, FALSE)
  /\ mesh = [facesCount |-> 0, verticesCount |-> 0]
  /\ buffer = <<>>
  /\ reads = <<>>
  /\ invoked = NoAccessor
  /\ mMaximumLevelsCount = NotComputed
  /\ datasets3D = <<>>
  /\ scanCompleted = FALSE
  /\ calls = 0
  /\ sLastStatus = "None"
  /\ ret = NullHandle
  /\ driver \in Drivers
  /\ events = <<>>
  /\ \E dataLocation \in Locations, inEditMode \in BOOLEAN :
       group \in {DatasetGroup(dataLocation, inEditMode, <<>>), DatasetGroup(dataLocation, inEditMode, <<MemoryDataset(0, "null")>>)}

NextGroup == MDAL_G_addDataset \/ MDAL_G_closeEditMode

SpecGroup == InitGroup /\ [][NextGroup]_vars

-----------------------------------------------------------------------------
(* Claims on the edit mode (SpecGroup) *)

\* The step is a call of MDAL_G_addDataset on the group (a non-null handle).
AddDatasetStep == calls' = calls + 1 /\ call'.op = "MDAL_G_addDataset" /\ call'.handle = "group"

\* The step is a call of MDAL_G_closeEditMode on the group.
CloseEditModeStep == calls' = calls + 1 /\ call'.op = "MDAL_G_closeEditMode" /\ call'.handle = "group"

\* What C10 says of every step but for the status, which is given.
NoDatasetOutsideEditMode(status) ==
  /\ ~group.inEditMode => (~group'.inEditMode /\ group'.datasets = group.datasets)
  /\ (AddDatasetStep /\ ~group.inEditMode) => (ret' = NullHandle /\ sLastStatus' = status /\ events' = events)
  /\ CloseEditModeStep => ~group'.inEditMode

\* C10 as stated: a group that is not in edit mode never gains a dataset:
\* MDAL_G_addDataset on it returns a null handle with status
\* IncompatibleDataset, calls no driver and leaves the dataset list as it
\* was; after MDAL_G_closeEditMode no MDAL_G_addDataset changes the count.
C10_Original == [][NoDatasetOutsideEditMode("Err_IncompatibleDataset")]_vars

\* C10, amended: the same, the status being InvalidData when the call passes
\* no values and IncompatibleDataset otherwise.
C10_NoDatasetOutsideEditMode ==
  [][NoDatasetOutsideEditMode(IF call'.values = "null" THEN "Err_InvalidData" ELSE "Err_IncompatibleDataset")]_vars

\* A dataset added in edit mode, the mode closed, and a further
\* MDAL_G_addDataset with values refused without a call of the driver.
C10_Witness ==
  /\ call.op = "MDAL_G_addDataset"
  /\ call.handle = "group"
  /\ call.values = "values"
  /\ events = <<"createDataset", "setStatistics", "stopEditing", "persist">>
  /\ Len(group.datasets) = 1
  /\ ~group.inEditMode
  /\ ret = NullHandle
  /\ sLastStatus = "Err_IncompatibleDataset"

\* C12 as stated: MDAL_G_addDataset on a group on volumes always returns a
\* null handle with status MissingDriverCapability and leaves the dataset
\* list as it was.
C12_Original ==
  [][(AddDatasetStep /\ group.dataLocation = "DataOnVolumes3D")
       => /\ ret' = NullHandle
          /\ sLastStatus' = "Err_MissingDriverCapability"
          /\ group'.datasets = group.datasets]_vars

\* C12, amended: MDAL_G_addDataset on a group on volumes always returns a
\* null handle, creates no dataset through the driver and leaves the dataset
\* list as it was; with values given, the group in edit mode and its driver
\* registered the status is MissingDriverCapability, also when the driver
\* reports write capability for volumes; otherwise the status is that of the
\* earlier refusal (InvalidData, IncompatibleDataset or MissingDriver).
C12_NoWritePathOnVolumes ==
  [][(AddDatasetStep /\ group.dataLocation = "DataOnVolumes3D")
       => /\ ret' = NullHandle
          /\ group' = group
          /\ events' = events
          /\ sLastStatus' = (IF call'.values = "null" THEN "Err_InvalidData"
                             ELSE IF ~group.inEditMode THEN "Err_IncompatibleDataset"
                             ELSE IF ~driver.registered THEN "Err_MissingDriver"
                             ELSE "Err_MissingDriverCapability")]_vars

\* A group on volumes in edit mode, its driver registered and able to write
\* volumes, refused a dataset.
C12_Witness ==
  /\ call.op = "MDAL_G_addDataset"
  /\ call.handle = "group"
  /\ call.values = "values"
  /\ group.dataLocation = "DataOnVolumes3D"
  /\ group.inEditMode
  /\ driver.registered
  /\ "DataOnVolumes3D" \in driver.writes
  /\ events = <<>>
  /\ ret = NullHandle
  /\ sLastStatus = "Err_MissingDriverCapability"

\* C14: MDAL_G_closeEditMode on a group in edit mode sets the statistics,
\* then leaves edit mode, then persists through the driver, the statistics
\* being set before any persist; on a group that is not in edit mode it does
\* nothing: no statistics, no persist, the last status unchanged.
C14_CloseEditModeOrder ==
  [][CloseEditModeStep
       => IF group.inEditMode
            THEN /\ \E tail \in {<<>>, <<"persist">>} :
                      events' = events \o <<"setStatistics", "stopEditing">> \o tail
                 /\ (driver.registered /\ group.dataLocation \in driver.writes)
                      => events' = events \o <<"setStatistics", "stopEditing", "persist">>
                 /\ group'.statistics = "set"
                 /\ ~group'.inEditMode
            ELSE /\ events' = events
                 /\ group' = group
                 /\ sLastStatus' = sLastStatus]_vars

\* A second close after a first one that persisted the group and failed:
\* the events and the status are those of the first.
C14_Witness ==
  /\ call.op = "MDAL_G_closeEditMode"
  /\ call.handle = "group"
  /\ calls = 2
  /\ events = <<"setStatistics", "stopEditing", "persist">>
  /\ sLastStatus = "Err_InvalidData"
  /\ ~group.inEditMode

\* How many times the driver was asked to persist the group.
PersistCount(log) == Cardinality({i \in 1..Len(log) : log[i] = "persist"})

\* The status MDAL_G_closeEditMode leaves on a group in edit mode: that of
\* the missing driver, of the missing capability, or after a persist either
\* InvalidData or the status as it was.
CloseStatus ==
  IF ~driver.registered
    THEN sLastStatus' = "Err_MissingDriver" /\ PersistCount(events') = PersistCount(events)
    ELSE IF group.dataLocation \notin driver.writes
      THEN sLastStatus' = "Err_MissingDriverCapability" /\ PersistCount(events') = PersistCount(events)
      ELSE sLastStatus' \in {sLastStatus, "Err_InvalidData"} /\ PersistCount(events') = PersistCount(events) + 1

\* C21: MDAL_G_closeEditMode on a group in edit mode leaves it out of edit
\* mode with its statistics set and its dataset list as it was, whether the
\* driver is missing (MissingDriver), cannot write the location
\* (MissingDriverCapability) or persist fails (InvalidData); from then on no
\* call reopens the group, changes its datasets or statistics, or persists
\* it again.
C21_ClosedForGood ==
  [][/\ (CloseEditModeStep /\ group.inEditMode)
          => /\ ~group'.inEditMode
             /\ group'.statistics = "set"
             /\ group'.datasets = group.datasets
             /\ CloseStatus
     /\ ~group.inEditMode
          => /\ ~group'.inEditMode
             /\ group'.datasets = group.datasets
             /\ group'.statistics = group.statistics
             /\ PersistCount(events') = PersistCount(events)]_vars

\* A group closed without a driver, then a close and an addDataset tried on
\* it: it is still closed, its statistics set, nothing persisted.
C21_Witness ==
  /\ calls = MaxCalls
  /\ call.op = "MDAL_G_addDataset"
  /\ call.handle = "group"
  /\ ~driver.registered
  /\ events = <<"setStatistics", "stopEditing">>
  /\ ~group.inEditMode
  /\ group.statistics = "set"
  /\ Len(group.datasets) = 1
  /\ ret = NullHandle

-----------------------------------------------------------------------------
(* Claims on the scan of the layer counts (SpecLevels) *)

\* The first call on the driver, which starts from the sentinel, returned:
\* no read of the Array Source failed.
FirstScanReturned == calls = 1 /\ ret = "returned"

\* The entries of the layer-count array of the mesh.
LayerCounts == {NLAt(ncFile, k) : k \in 0..(mDimensions.Face2D - 1)}

\* max(0, maximum entry of the layer-count array), 0 for an absent array.
WholeMaximum ==
  IF "NL" \notin ncFile.present \/ LayerCounts = {} THEN 0
  ELSE Max(0, CHOOSE m \in LayerCounts : \A e \in LayerCounts : e <= m)

\* C13: calculateMaximumLevelCount, started with the sentinel, ends for every
\* face count with max(0, maximum entry of "NL") memoized, having read the
\* array in consecutive chunks of 1 to 1000 elements, the first at offset 0,
\* each starting where the one before ended, the last ending at the face
\* count; with "NL" absent or no face it memoizes 0 without a read.
C13_ChunkedScan ==
  FirstScanReturned
  => /\ mMaximumLevelsCount = WholeMaximum
     /\ \A i \in 1..Len(reads) :
          /\ reads[i].count >= 1
          /\ reads[i].count <= maxBufferLength
          /\ reads[i].start = (IF i = 1 THEN 0 ELSE reads[i - 1].start + reads[i - 1].count)
     /\ ("NL" \in ncFile.present /\ mDimensions.Face2D > 0)
          => /\ Len(reads) >= 1
             /\ reads[Len(reads)].start + reads[Len(reads)].count = mDimensions.Face2D
     /\ ("NL" \notin ncFile.present \/ mDimensions.Face2D = 0)
          => (reads = <<>> /\ mMaximumLevelsCount = 0)

\* A scan of 2001 faces in three chunks, the last of one element, which
\* holds the largest layer count.
C13_Witness ==
  /\ FirstScanReturned
  /\ mDimensions.Face2D = MaxChunks * maxBufferLength + 1
  /\ ncFile.nl.at = MaxChunks * maxBufferLength
  /\ ncFile.nl.peak > ncFile.nl.base
  /\ Len(reads) = MaxChunks + 1
  /\ reads[Len(reads)].count = 1
  /\ mMaximumLevelsCount = ncFile.nl.peak

\* C19: whenever the memoized maximum-levels-count is not the sentinel it is
\* the maximum of the whole layer-count array (0 for an absent array), and
\* every dataset create3DDataset has built holds that value, also after a
\* scan a read failure interrupted and after a later retry.
C19_MemoizedMaximumIsWhole ==
  /\ mMaximumLevelsCount # NotComputed => mMaximumLevelsCount = WholeMaximum
  /\ \A i \in 1..Len(datasets3D) : datasets3D[i].maximumLevelsCount = WholeMaximum

-----------------------------------------------------------------------------
(* The handles and the indexed getters of the C interface (mdal.cpp) *)

\* The longest list of dataset groups, of datasets and of metadata pairs.
MaxList == 2

\* What a call returns: a handle, a string, an int, a bool, a double, a
\* data location, nothing (a void function), or the member a getter reads
\* from a valid object.
StringValue(s) == [string |-> s]

IntValue(i) == [int |-> i]

BoolValue(b) == [bool |-> b]

DoubleValue(d) == [double |-> d]

LocationValue(l) == [location |-> l]

Void == [void |-> TRUE]

MemberOf(op) == [member |-> op]

HandleTo(element) == [handle |-> element]

\* What a read through an invalid pointer or index yields when the process
\* survives it.
Garbage == [garbage |-> TRUE]

EMPTY_STR == StringValue("")

NODATA == "NaN"

\* An access of element [index] of a list of the model, and a call of a
\* member through a null pointer.
ElementAccess(list, index) == [access |-> list, index |-> index]

NullDereference(member) == [dereference |-> "null", member |-> member]

\* The operations whose whole body is a null check followed by the read of
\* a member: the handle they take, the status they set and the value they
\* return on a null handle.
Getter(op, handle, status, neutral) == [op |-> op, handle |-> handle, status |-> status, neutral |-> neutral]

DriverGetters ==
  { Getter("MDAL_DR_meshLoadCapability", "driver", "Err_MissingDriver", BoolValue(FALSE)),
    Getter("MDAL_DR_writeDatasetsCapability", "driver", "Err_MissingDriver", BoolValue(FALSE)),
    Getter("MDAL_DR_saveMeshCapability", "driver", "Err_MissingDriver", BoolValue(FALSE)),
    Getter("MDAL_DR_longName", "driver", "Err_MissingDriver", EMPTY_STR),
    Getter("MDAL_DR_name", "driver", "Err_MissingDriver", EMPTY_STR),
    Getter("MDAL_DR_filters", "driver", "Err_MissingDriver", EMPTY_STR) }

MeshGetters ==
  { Getter("MDAL_M_projection", "mesh", "Err_IncompatibleMesh", EMPTY_STR),
    Getter("MDAL_M_vertexCount", "mesh", "Err_IncompatibleMesh", IntValue(0)),
    Getter("MDAL_M_faceCount", "mesh", "Err_IncompatibleMesh", IntValue(0)),
    Getter("MDAL_M_faceVerticesMaximumCount", "mesh", "Err_IncompatibleMesh", IntValue(0)),
    Getter("MDAL_M_datasetGroupCount", "mesh", "Err_IncompatibleMesh", IntValue(0)),
    Getter("MDAL_M_driverName", "mesh", "Err_IncompatibleMesh", NullHandle),
    Getter("MDAL_M_vertexIterator", "mesh", "Err_IncompatibleMesh", NullHandle),
    Getter("MDAL_M_faceIterator", "mesh", "Err_IncompatibleMesh", NullHandle),
    Getter("MDAL_VI_next", "iterator", "Err_IncompatibleMesh", IntValue(0)),
    Getter("MDAL_FI_next", "iterator", "Err_IncompatibleMesh", IntValue(0)) }

GroupGetters ==
  { Getter("MDAL_G_mesh", "group", "Err_IncompatibleDatasetGroup", NullHandle),
    Getter("MDAL_G_datasetCount", "group", "Err_IncompatibleDatasetGroup", IntValue(0)),
    Getter("MDAL_G_metadataCount", "group", "Err_IncompatibleDataset", IntValue(0)),
    Getter("MDAL_G_name", "group", "Err_IncompatibleDataset", EMPTY_STR),
    Getter("MDAL_G_hasScalarData", "group", "Err_IncompatibleDataset", BoolValue(TRUE)),
    Getter("MDAL_G_dataLocation", "group", "Err_IncompatibleDataset", LocationValue("DataInvalidLocation")),
    Getter("MDAL_G_maximumVerticalLevelCount", "group", "Err_IncompatibleDataset", IntValue(0)),
    Getter("MDAL_G_isInEditMode", "group", "Err_IncompatibleDataset", BoolValue(TRUE)),
    Getter("MDAL_G_referenceTime", "group", "Err_IncompatibleDataset", EMPTY_STR),
    Getter("MDAL_G_driverName", "group", "Err_IncompatibleDataset", EMPTY_STR) }

DatasetGetters ==
  { Getter("MDAL_D_group", "dataset", "Err_IncompatibleDataset", NullHandle),
    Getter("MDAL_D_time", "dataset", "Err_IncompatibleDataset", DoubleValue(NODATA)),
    Getter("MDAL_D_volumesCount", "dataset", "Err_IncompatibleDataset", IntValue(0)),
    Getter("MDAL_D_maximumVerticalLevelCount", "dataset", "Err_IncompatibleDataset", IntValue(0)),
    Getter("MDAL_D_valueCount", "dataset", "Err_IncompatibleDataset", IntValue(0)),
    Getter("MDAL_D_isValid", "dataset", "Err_IncompatibleDataset", BoolValue(FALSE)),
    Getter("MDAL_D_hasActiveFlagCapability", "dataset", "Err_IncompatibleDataset", BoolValue(FALSE)) }

Getters == DriverGetters \cup MeshGetters \cup GroupGetters \cup DatasetGetters

\* What the operations of the C interface leave alone.
notApiVars == <<ncFile, dataset, reads, invoked, facesVars, levelVars, namingVars, driver>>

ApiCall(op, handle, args) == [op |-> op, handle |-> handle, args |-> args]

\* One of the operations of Getters: on a null handle the status and the
\* neutral value, on a valid one the member of the object.
NullCheckedGetter ==
  \E g \in Getters :
    \E handle \in {"null", g.handle} :
      /\ pc = "start"
      /\ pc' = "done"
      /\ call' = ApiCall(g.op, handle, <<>>)
      /\ IF handle = "null"
           THEN sLastStatus' = g.status /\ ret' = g.neutral
           ELSE ret' = MemberOf(g.op) /\ UNCHANGED sLastStatus
      /\ UNCHANGED <<mesh, group, buffer, events, notApiVars>>

\* operator[] of a std::vector on position i (a size_t): the element when i
\* is inside the vector; outside it the behaviour is undefined, and the
\* build either stops the process or hands back whatever the memory holds.
VectorAt(list, vector, i, value) ==
  /\ events' = Append(events, ElementAccess(list, i))
  /\ IF i < Len(vector)
       THEN pc' = "done" /\ ret' = value
       ELSE \/ pc' = "crashed" /\ UNCHANGED ret
            \/ pc' = "done" /\ ret' = Garbage

\* The refusal of an indexed getter: the status and the neutral value.
RefuseIndex(status, neutral) ==
  /\ sLastStatus' = status
  /\ ret' = neutral
  /\ pc' = "done"
  /\ UNCHANGED events

MDAL_M_datasetGroup ==
  \E handle \in {"null", "mesh"}, index \in (-MaxNegative)..MaxIndex :
    /\ pc = "start"
    /\ call' = ApiCall("MDAL_M_datasetGroup", handle, [index |-> index])
    /\ IF handle = "null"
         THEN RefuseIndex("Err_IncompatibleMesh", NullHandle)
         ELSE IF index < 0
           THEN RefuseIndex("Err_IncompatibleMesh", NullHandle)
           ELSE IF Len(mesh.datasetGroups) <= index
             THEN RefuseIndex("Err_IncompatibleMesh", NullHandle)
             ELSE /\ VectorAt("datasetGroups", mesh.datasetGroups, ToSizeT(index), HandleTo(mesh.datasetGroups[index + 1]))
                  /\ UNCHANGED sLastStatus
    /\ UNCHANGED <<mesh, group, buffer, notApiVars>>

MDAL_G_dataset ==
  \E handle \in {"null", "group"}, index \in (-MaxNegative)..MaxIndex :
    /\ pc = "start"
    /\ call' = ApiCall("MDAL_G_dataset", handle, [index |-> index])
    /\ IF handle = "null"
         THEN RefuseIndex("Err_IncompatibleDatasetGroup", NullHandle)
         ELSE IF index < 0
           THEN RefuseIndex("Err_IncompatibleDatasetGroup", NullHandle)
           ELSE IF Len(group.datasets) <= index
             THEN RefuseIndex("Err_IncompatibleDatasetGroup", NullHandle)
             ELSE /\ VectorAt("datasets", group.datasets, ToSizeT(index), HandleTo(group.datasets[index + 1]))
                  /\ UNCHANGED sLastStatus
    /\ UNCHANGED <<mesh, group, buffer, notApiVars>>

MDAL_G_metadataKey ==
  \E handle \in {"null", "group"}, index \in (-MaxNegative)..MaxIndex :
    /\ pc = "start"
    /\ call' = ApiCall("MDAL_G_metadataKey", handle, [index |-> index])
    /\ IF handle = "null"
         THEN RefuseIndex("Err_IncompatibleDataset", EMPTY_STR)
         ELSE IF Len(group.metadata) <= index
           THEN RefuseIndex("Err_IncompatibleDataset", EMPTY_STR)
           ELSE /\ VectorAt("metadata", group.metadata, ToSizeT(index), StringValue(group.metadata[index + 1].first))
                /\ UNCHANGED sLastStatus
    /\ UNCHANGED <<mesh, group, buffer, notApiVars>>

MDAL_G_metadataValue ==
  \E handle \in {"null", "group"}, index \in (-MaxNegative)..MaxIndex :
    /\ pc = "start"
    /\ call' = ApiCall("MDAL_G_metadataValue", handle, [index |-> index])
    /\ IF handle = "null"
         THEN RefuseIndex("Err_IncompatibleDataset", EMPTY_STR)
         ELSE IF Len(group.metadata) <= index
           THEN RefuseIndex("Err_IncompatibleDataset", EMPTY_STR)
           ELSE /\ VectorAt("metadata", group.metadata, ToSizeT(index), StringValue(group.metadata[index + 1].second))
                /\ UNCHANGED sLastStatus
    /\ UNCHANGED <<mesh, group, buffer, notApiVars>>

\* DatasetGroup::setMetadata: the value of a key the list holds is replaced
\* where it stands, a new key goes to the end of the list.
setMetadata(g, key, val) ==
  IF \E i \in 1..Len(g.metadata) : g.metadata[i].first = key
    THEN [g EXCEPT !.metadata = [i \in 1..Len(g.metadata) |-> IF g.metadata[i].first = key THEN [first |-> key, second |-> val] ELSE g.metadata[i]]]
    ELSE [g EXCEPT !.metadata = Append(g.metadata, [first |-> key, second |-> val])]

\* The strings of the metadata, and the null pointer passed for one.
Key(i) == [key |-> i]

Value(i) == [value |-> i]

NullString == [null |-> "const char *"]

Keys == {Key(i) : i \in 1..(MaxList + 1)}

Values == {Value(0), Value(MaxList + 1)}

\* The null check of the group sets the status and goes on: with a key and
\* a value the member is called through the null pointer, which is undefined
\* behaviour (the process stops, or goes on with the call returned).
MDAL_G_setMetadata ==
  \E handle \in {"null", "group"}, key \in Keys \cup {NullString}, val \in Values \cup {NullString} :
    /\ pc = "start"
    /\ call' = ApiCall("MDAL_G_setMetadata", handle, [key |-> key, val |-> val])
    /\ LET checked == IF handle = "null" THEN "Err_IncompatibleDataset" ELSE sLastStatus
       IN  IF key = NullString \/ val = NullString
             THEN /\ sLastStatus' = "Err_InvalidData"
                  /\ ret' = Void
                  /\ pc' = "done"
                  /\ UNCHANGED <<group, events>>
             ELSE IF handle = "null"
               THEN /\ sLastStatus' = checked
                    /\ events' = Append(events, NullDereference("setMetadata"))
                    /\ \/ pc' = "crashed" /\ UNCHANGED ret
                       \/ pc' = "done" /\ ret' = Void
                    /\ UNCHANGED group
               ELSE /\ sLastStatus' = checked
                    /\ group' = setMetadata(group, key, val)
                    /\ ret' = Void
                    /\ pc' = "done"
                    /\ UNCHANGED events
    /\ UNCHANGED <<mesh, buffer, notApiVars>>

\* The outputs go to buffer: <<*min, *max>>.
MDAL_G_minimumMaximum ==
  \E handle \in {"null", "group"}, min \in {"null", "min"}, max \in {"null", "max"} :
    /\ pc = "start"
    /\ pc' = "done"
    /\ call' = ApiCall("MDAL_G_minimumMaximum", handle, [min |-> min, max |-> max])
    /\ ret' = Void
    /\ IF min = "null" \/ max = "null"
         THEN sLastStatus' = "Err_InvalidData" /\ UNCHANGED buffer
         ELSE IF handle = "null"
           THEN sLastStatus' = "Err_IncompatibleDataset" /\ buffer' = <<NODATA, NODATA>>
           ELSE buffer' = <<group.statistics.minimum, group.statistics.maximum>> /\ UNCHANGED sLastStatus
    /\ UNCHANGED <<mesh, group, events, notApiVars>>

\* The groups and the meshes the operations are called on: lists of 0 to
\* MaxList elements.
ApiGroups ==
  { Extend(DatasetGroup("DataOnVertices2D", inEditMode, [i \in 1..d |-> MemoryDataset(i, "null")]),
           [metadata |-> [i \in 1..m |-> [first |-> Key(i), second |-> Value(i)]],
            statistics |-> [minimum |-> "minimum", maximum |-> "maximum"]]) :
      inEditMode \in BOOLEAN, d \in 0..MaxList, m \in 0..MaxList }

ApiMeshes ==
  { [facesCount |-> 0, verticesCount |-> 0, datasetGroups |-> [i \in 1..n |-> [group |-> i]]] : n \in 0..MaxList }

InitApi ==
  /\ IdleFaces
  /\ IdleLevels
  /\ IdleNaming
  /\ ncFile = NoFile
  /\ pc = "start"
  /\ call = ApiCall("none", "null", <<>>)
  /\ dataset = Dataset2D(0, FALSE)
  /\ reads = <<>>
  /\ invoked = NoAccessor
  /\ driver = [registered |-> FALSE, writes |-> {}]
  /\ events = <<>>
  /\ buffer = <<>>
  /\ ret = Void
  /\ sLastStatus = "None"
  /\ mesh \in ApiMeshes
  /\ group \in ApiGroups

NextApi ==
  \/ NullCheckedGetter
  \/ MDAL_M_datasetGroup
  \/ MDAL_G_dataset
  \/ MDAL_G_metadataKey
  \/ MDAL_G_metadataValue
  \/ MDAL_G_setMetadata
  \/ MDAL_G_minimumMaximum

SpecApi == InitApi /\ [][NextApi]_vars

-----------------------------------------------------------------------------
(* Claims on the handles and on the indexed getters (SpecApi) *)

\* The step is a call of an operation with a null handle.
NullHandleStep == pc = "start" /\ pc' # "start" /\ call'.handle = "null"

\* The neutral values: 0 (also the 0 of the location enumeration), the
\* default of a bool, the empty string, the null handle, not-a-number, and
\* the nothing of a void function.
NeutralValues ==
  { IntValue(0), LocationValue("DataInvalidLocation"), BoolValue(FALSE), BoolValue(TRUE),
    EMPTY_STR, NullHandle, DoubleValue(NODATA), Void }

\* C11: every operation that takes a handle, given a null one, never
\* dereferences it: it sets the last status to an error code, returns the
\* neutral value (its outputs, if written, are not-a-number) and modifies no
\* model object; MDAL_G_setMetadata with a null group, a key and a value is
\* one of them.
C11_NullHandlesRefused ==
  [][NullHandleStep
       => /\ pc' = "done"
          /\ events' = events
          /\ sLastStatus' # "None"
          /\ ret' \in NeutralValues
          /\ buffer' \in {buffer, <<NODATA, NODATA>>}
          /\ group' = group
          /\ mesh' = mesh]_vars

\* The indexed getters, and the list each of them reads.
IndexedGetters == {"MDAL_M_datasetGroup", "MDAL_G_dataset", "MDAL_G_metadataKey", "MDAL_G_metadataValue"}

ListName(op) ==
  CASE op = "MDAL_M_datasetGroup" -> "datasetGroups"
    [] op = "MDAL_G_dataset" -> "datasets"
    [] OTHER -> "metadata"

ListOf(op) ==
  CASE op = "MDAL_M_datasetGroup" -> mesh.datasetGroups
    [] op = "MDAL_G_dataset" -> group.datasets
    [] OTHER -> group.metadata

ElementOf(op, index) ==
  CASE op = "MDAL_M_datasetGroup" -> HandleTo(mesh.datasetGroups[index + 1])
    [] op = "MDAL_G_dataset" -> HandleTo(group.datasets[index + 1])
    [] op = "MDAL_G_metadataKey" -> StringValue(group.metadata[index + 1].first)
    [] OTHER -> StringValue(group.metadata[index + 1].second)

\* C20: an indexed getter called on an object accesses element [index] of
\* its list only when 0 <= index < size, and returns that element; for every
\* other index, negative or >= size, it reads no element, returns the null
\* handle or the empty string and sets an error status.
C20_IndexedGettersInRange ==
  (pc # "start" /\ call.op \in IndexedGetters /\ call.handle # "null")
  => IF 0 <= call.args.index /\ call.args.index < Len(ListOf(call.op))
       THEN /\ pc = "done"
            /\ events = <<ElementAccess(ListName(call.op), call.args.index)>>
            /\ ret = ElementOf(call.op, call.args.index)
       ELSE /\ pc = "done"
            /\ events = <<>>
            /\ ret \in {NullHandle, EMPTY_STR}
            /\ sLastStatus # "None"

=============================================================================
